---- MODULE Spec2Model ----
(***************************************************************************)
(* Model of ComprehensiveMobileAccessibilityScanner                        *)
(* (src/mobileAccessibility.py): the scoring step of generate_report, the  *)
(* rectangle test elements_overlap, and the analyze_accessibility pipeline *)
(* (element collection, rule checks, enrichment, deduplication).           *)
(***************************************************************************)
EXTENDS Integers, Sequences, FiniteSets, TLC

VARIABLES
    \* ---- generate_report (scoring step)
    issuesA,        \* the finding list A handed to generate_report
    issuesB,        \* the finding list B = A plus additional findings
    reportA,        \* report_data of generate_report(A), or NoReport
    reportB,        \* report_data of generate_report(B), or NoReport
    \* ---- elements_overlap
    bounds1,        \* first rectangle
    bounds2,        \* second rectangle
    overlap12,      \* the call elements_overlap(bounds1, bounds2)
    overlap21,      \* the call elements_overlap(bounds2, bounds1)
    \* ---- analyze_accessibility
    rules_config,   \* the rules_config the scanner was constructed with
    screenshot_file,\* the screenshot handed to the scan
    tree,           \* the <node> elements of the UI dump, in document order
    pc,             \* where analyze_accessibility stands
    scan_elements,  \* all_elements of the first pass
    scan_issues,    \* the issues list (raw, then enriched)
    scan_result,    \* the list analyze_accessibility returns
    \* ---- the deduplication loop alone
    dedupInput,     \* a list of issues
    dedupOnce,      \* the loop applied to dedupInput
    dedupTwice,     \* the loop applied to the output of dedupOnce
    \* ---- run_scan, twice on one scanner
    wcag_coverage,  \* self.wcag_coverage["summary"]
    scanFirst,      \* what the first run_scan produced
    scanSecond,     \* what the second run_scan produced
    \* ---- load_rules_config alone
    loaded,         \* what the call load_rules_config(rules_config) ended with
    \* ---- one rule check alone
    checked_elements,   \* the all_elements list handed to the check method
    check_issues        \* the issues the check method returned

scoreVars == <<issuesA, issuesB, reportA, reportB>>
overlapVars == <<bounds1, bounds2, overlap12, overlap21>>
scanVars ==
    <<rules_config, screenshot_file, tree, pc, scan_elements, scan_issues, scan_result>>
dedupVars == <<dedupInput, dedupOnce, dedupTwice>>
repeatVars == <<wcag_coverage, scanFirst, scanSecond>>
loadVars == <<loaded>>
checkVars == <<checked_elements, check_issues>>
vars == <<scoreVars, overlapVars, scanVars, dedupVars, repeatVars, loadVars, checkVars>>

\* ---------------------------------------------------------------- bounds
MaxFindings == 3    \* longest finding list A handed to generate_report
MaxExtra == 2       \* most findings added to A to make B
MaxCoord == 3       \* rectangle coordinates range over 0..MaxCoord
MaxNodes == 2       \* most <node> elements in a UI dump
MaxIssues == 3      \* longest issue list handed to the deduplication loop alone
MaxCopies == 3      \* most copies made of each finding of a list
MaxFocusable == 3   \* most elements handed to the focus-order check alone
MaxClickable == 3   \* most elements handed to the overlapping-elements check alone

\* ------------------------------------------------------------- utilities
Max(a, b) == IF a >= b THEN a ELSE b
Min(a, b) == IF a <= b THEN a ELSE b

SeqsUpTo(S, n) == UNION {[1..k -> S] : k \in 0..n}

\* ============================================================ generate_report
\* Priority values a finding can carry; "info" stands for any value that is
\* not a key of the summary dict.
Priorities == {"critical", "high", "medium", "low", "info"}

\* summary = {"critical":0,"high":0,"medium":0,"low":0}
EmptySummary == [critical |-> 0, high |-> 0, medium |-> 0, low |-> 0]

\* The loop with a priority that is no key of the summary counted as low.
RECURSIVE summarize_rest_low(_, _)
summarize_rest_low(issues, summary) ==
    IF issues = <<>> THEN summary
    ELSE LET p == Head(issues).priority
             next == IF p \in DOMAIN summary
                     THEN [summary EXCEPT ![p] = @ + 1]
                     ELSE [summary EXCEPT !.low = @ + 1]
         IN  summarize_rest_low(Tail(issues), next)

\* for i in issues: p = i.get("priority"); if p in summary: summary[p] += 1
RECURSIVE summarize(_, _)
summarize(issues, summary) ==
    IF issues = <<>> THEN summary
    ELSE LET p == Head(issues).priority
             next == IF p \in DOMAIN summary
                     THEN [summary EXCEPT ![p] = @ + 1]
                     ELSE summary
         IN  summarize(Tail(issues), next)

\* Low findings weighted like medium ones (low*1 instead of low*0.5).
weighted_sum2_low1(summary) ==
    summary.critical * 6 + summary.high * 4 + summary.medium * 2 + summary.low * 2

\* weighted_sum = critical*3 + high*2 + medium*1 + low*0.5, kept in halves
\* (twice the value) so that the arithmetic stays in the integers.
weighted_sum2(summary) ==
    summary.critical * 6 + summary.high * 4 + summary.medium * 2 + summary.low

\* A sign slip in the penalty: 100 + int(...) instead of 100 - int(...).
audit_score_plus(summary, total_issues) ==
    IF total_issues = 0 THEN 100
    ELSE Max(0, 100 + ((weighted_sum2(summary) * 10) \div Max(total_issues, 1)))

\* The penalty scaled by 30 instead of 20.
audit_score_steep(summary, total_issues) ==
    IF total_issues = 0 THEN 100
    ELSE Max(0, 100 - ((weighted_sum2(summary) * 15) \div Max(total_issues, 1)))

\* The penalty taken on the weighted sum itself, not on its average.
audit_score_sum(summary, total_issues) ==
    IF total_issues = 0 THEN 100
    ELSE Max(0, 100 - (weighted_sum2(summary) * 10))

\* audit_score = 100 if total_issues == 0
\*               else max(0, 100 - int((weighted_sum/max(total_issues, 1))*20))
\* (weighted_sum/total)*20 = (weighted_sum2*10)/total; int() truncates a
\* non-negative value, which is \div.
audit_score_of(summary, total_issues) ==
    IF total_issues = 0 THEN 100
    ELSE Max(0, 100 - ((weighted_sum2(summary) * 10) \div Max(total_issues, 1)))

\* The scoring part of generate_report: the report_data fields it computes.
generate_report(issues) ==
    LET summary == summarize(issues, EmptySummary)
        total_issues == Len(issues)
    IN  [summary |-> summary,
         audit_score |-> audit_score_of(summary, total_issues)]

NoReport == [summary |-> EmptySummary, audit_score |-> -1]

\* self.wcag_coverage["summary"] as load_wcag_coverage builds it
load_wcag_coverage == [total_rules |-> 120, covered_rules |-> 32, pending_rules |-> 88]

\* covered_guidelines: the set of the "guideline" values of the issues
covered_guidelines(issues) ==
    {issues[k].guideline : k \in {j \in DOMAIN issues : "guideline" \in DOMAIN issues[j]}}

\* "Update WCAG coverage data": covered_rules and pending_rules rewritten from
\* the issues of this report.
update_wcag_coverage(coverage, issues) ==
    [coverage EXCEPT
        !.covered_rules = Cardinality(covered_guidelines(issues)),
        !.pending_rules = coverage.total_rules - Cardinality(covered_guidelines(issues))]

\* The score averaged over the covered_rules left by the previous report
\* instead of over the findings of this one.
report_data_stale(issues, coverage) ==
    [summary |-> generate_report(issues).summary,
     audit_score |-> audit_score_of(generate_report(issues).summary,
                                    coverage.covered_rules),
     issues |-> issues,
     wcag_coverage |-> update_wcag_coverage(coverage, issues)]

\* report_data of generate_report, the timestamp left out: summary,
\* audit_score, the issues, and the coverage summary after its update.
report_data(issues, coverage) ==
    [summary |-> generate_report(issues).summary,
     audit_score |-> generate_report(issues).audit_score,
     issues |-> issues,
     wcag_coverage |-> update_wcag_coverage(coverage, issues)]

ScoreFindings == [priority : Priorities]
ExtraFindings == [priority : {"critical", "high", "medium"}]

InitScore ==
    /\ issuesA \in SeqsUpTo(ScoreFindings, MaxFindings)
    /\ \E extra \in SeqsUpTo(ExtraFindings, MaxExtra) :
          /\ extra # <<>>
          /\ issuesB = issuesA \o extra
    /\ reportA = NoReport
    /\ reportB = NoReport

GenerateReportA ==
    /\ reportA = NoReport
    /\ reportA' = generate_report(issuesA)
    /\ UNCHANGED <<issuesA, issuesB, reportB>>

GenerateReportB ==
    /\ reportB = NoReport
    /\ reportB' = generate_report(issuesB)
    /\ UNCHANGED <<issuesA, issuesB, reportA>>

\* ---- generate_report on a list and on the list with every finding repeated
\* Every finding of the list repeated k times in place.
replicate(issues, k) ==
    [i \in 1..(k * Len(issues)) |-> issues[((i - 1) \div k) + 1]]

InitReplicate ==
    /\ issuesA \in SeqsUpTo(ScoreFindings, MaxFindings)
    /\ issuesA # <<>>
    /\ \E k \in 1..MaxCopies : issuesB = replicate(issuesA, k)
    /\ reportA = NoReport
    /\ reportB = NoReport

\* ============================================================ elements_overlap
\* A call that has not been made yet, and a call that returned v.
NotRun == [ran |-> FALSE, result |-> FALSE]
Returned(v) == [ran |-> TRUE, result |-> v]

\* Rectangles as parse_bounds returns them: x1 <= x2 and y1 <= y2.
Rects ==
    {b \in (0..MaxCoord) \X (0..MaxCoord) \X (0..MaxCoord) \X (0..MaxCoord) :
        b[1] <= b[3] /\ b[2] <= b[4]}

\* The second x test written with <= : the x test is no longer symmetric.
elements_overlap_skew(b1, b2) ==
    LET overlap_x == ~(b1[3] < b2[1] \/ b2[3] <= b1[1])
        overlap_y == ~(b1[4] < b2[2] \/ b2[4] < b1[2])
    IN  overlap_x /\ overlap_y

\* x1,y1,x2,y2 = bounds1; x3,y3,x4,y4 = bounds2
\* overlap_x = not (x2 < x3 or x4 < x1); overlap_y = not (y2 < y3 or y4 < y1)
elements_overlap(b1, b2) ==
    LET overlap_x == ~(b1[3] < b2[1] \/ b2[3] < b1[1])
        overlap_y == ~(b1[4] < b2[2] \/ b2[4] < b1[2])
    IN  overlap_x /\ overlap_y

InitOverlap ==
    /\ bounds1 \in Rects
    /\ bounds2 \in Rects
    /\ overlap12 = NotRun
    /\ overlap21 = NotRun

ElementsOverlap12 ==
    /\ overlap12 = NotRun
    /\ overlap12' = Returned(elements_overlap(bounds1, bounds2))
    /\ UNCHANGED <<bounds1, bounds2, overlap21>>

ElementsOverlap21 ==
    /\ overlap21 = NotRun
    /\ overlap21' = Returned(elements_overlap(bounds2, bounds1))
    /\ UNCHANGED <<bounds1, bounds2, overlap12>>


\* ============================================================ strings
\* A Python str is modelled as the sequence of its characters, so that
\* strip(), lower(), len() and the substring test `in` are computed.
UpperCase == <<"A", "B", "C", "D", "E", "F", "G", "H", "I", "J", "K", "L", "M", "N", "O", "P", "Q", "R", "S", "T", "U", "V", "W", "X", "Y", "Z">>
LowerCase == <<"a", "b", "c", "d", "e", "f", "g", "h", "i", "j", "k", "l", "m", "n", "o", "p", "q", "r", "s", "t", "u", "v", "w", "x", "y", "z">>

\* str.lower(), one character
lower_char(c) ==
    IF \E k \in DOMAIN UpperCase : UpperCase[k] = c
    THEN LowerCase[CHOOSE k \in DOMAIN UpperCase : UpperCase[k] = c]
    ELSE c

\* str.lower()
lower(s) == [k \in DOMAIN s |-> lower_char(s[k])]

\* str.strip(): leading and trailing blanks removed
RECURSIVE lstrip(_)
lstrip(s) == IF s # <<>> /\ Head(s) = " " THEN lstrip(Tail(s)) ELSE s
RECURSIVE rstrip(_)
rstrip(s) ==
    IF s # <<>> /\ s[Len(s)] = " " THEN rstrip(SubSeq(s, 1, Len(s) - 1)) ELSE s
strip(s) == rstrip(lstrip(s))

\* `sub in s` for two strings
contains(s, sub) ==
    \E k \in 0..(Len(s) - Len(sub)) : \A j \in 1..Len(sub) : s[k + j] = sub[j]

\* s.split('.')[-1]: what follows the last dot
RECURSIVE last_segment(_)
last_segment(s) ==
    IF \E k \in DOMAIN s : s[k] = "."
    THEN last_segment(SubSeq(s, (CHOOSE k \in DOMAIN s : s[k] = ".") + 1, Len(s)))
    ELSE s

\* str(n) for n >= 0: the decimal digits of n
DigitChars == <<"0", "1", "2", "3", "4", "5", "6", "7", "8", "9">>
RECURSIVE str_int(_)
str_int(n) ==
    IF n < 10 THEN <<DigitChars[n + 1]>>
    ELSE Append(str_int(n \div 10), DigitChars[(n % 10) + 1])

\* dict.get(key, default)
Get(d, key, default) == IF key \in DOMAIN d THEN d[key] ELSE default

\* Python's None (a missing attribute, unparsable bounds)
None == <<"None">>

\* ============================================================ rule catalog
\* self.default_rules. The long texts (wcag_description, why_it_matters,
\* how_to_fix) are cut to their first words; the unused "description" is left
\* out; threshold is kept in hundredths (4.5 is 450).
default_rules ==
    "text-alternatives" :>
        [enabled |-> TRUE,
         priority |-> "critical",
         guideline |-> "WCAG 1.1.1 - Non-text Content",
         wcag_description |-> "All non-text content that...",
         why_it_matters |-> "Screen readers need text...",
         how_to_fix |-> "Add alt text to...",
         success_criteria |-> "Level A"] @@
    "info-relationships" :>
        [enabled |-> TRUE,
         priority |-> "high",
         guideline |-> "WCAG 1.3.1 - Info and Relationships",
         wcag_description |-> "Information, structure, and relationships...",
         why_it_matters |-> "Assistive technologies need to...",
         how_to_fix |-> "Use proper semantic HTML,...",
         success_criteria |-> "Level A"] @@
    "color-not-only" :>
        [enabled |-> TRUE,
         priority |-> "high",
         guideline |-> "WCAG 1.4.1 - Use of Color",
         wcag_description |-> "Color is not used...",
         why_it_matters |-> "Colorblind users may not...",
         how_to_fix |-> "Add text labels, patterns,...",
         success_criteria |-> "Level A"] @@
    "color-contrast" :>
        [enabled |-> TRUE,
         priority |-> "high",
         guideline |-> "WCAG 1.4.3 - Contrast (Minimum)",
         wcag_description |-> "The visual presentation of...",
         why_it_matters |-> "Low contrast text is...",
         how_to_fix |-> "Increase contrast ratio between...",
         success_criteria |-> "Level AA",
         threshold |-> 450] @@
    "images-of-text" :>
        [enabled |-> TRUE,
         priority |-> "medium",
         guideline |-> "WCAG 1.4.5 - Images of Text",
         wcag_description |-> "If the technologies being...",
         why_it_matters |-> "Images of text cannot...",
         how_to_fix |-> "Use actual text with...",
         success_criteria |-> "Level AA"] @@
    "text-spacing" :>
        [enabled |-> TRUE,
         priority |-> "medium",
         guideline |-> "WCAG 1.4.12 - Text Spacing",
         wcag_description |-> "No loss of content...",
         why_it_matters |-> "Users with low vision...",
         how_to_fix |-> "Ensure CSS allows for...",
         success_criteria |-> "Level AA"] @@
    "focus-order" :>
        [enabled |-> TRUE,
         priority |-> "high",
         guideline |-> "WCAG 2.4.3 - Focus Order",
         wcag_description |-> "If a Web page...",
         why_it_matters |-> "Keyboard and screen reader...",
         how_to_fix |-> "Ensure tab order follows...",
         success_criteria |-> "Level A"] @@
    "link-purpose" :>
        [enabled |-> TRUE,
         priority |-> "high",
         guideline |-> "WCAG 2.4.4 - Link Purpose (In Context)",
         wcag_description |-> "The purpose of each...",
         why_it_matters |-> "Screen reader users often...",
         how_to_fix |-> "Use descriptive link text...",
         success_criteria |-> "Level A"] @@
    "focus-visible" :>
        [enabled |-> TRUE,
         priority |-> "high",
         guideline |-> "WCAG 2.4.7 - Focus Visible",
         wcag_description |-> "Any keyboard operable user...",
         why_it_matters |-> "Keyboard users need to...",
         how_to_fix |-> "Ensure all focusable elements...",
         success_criteria |-> "Level AA"] @@
    "pointer-gestures" :>
        [enabled |-> TRUE,
         priority |-> "medium",
         guideline |-> "WCAG 2.5.1 - Pointer Gestures",
         wcag_description |-> "All functionality that uses...",
         why_it_matters |-> "Users with motor disabilities...",
         how_to_fix |-> "Provide single-tap alternatives for...",
         success_criteria |-> "Level A"] @@
    "label-in-name" :>
        [enabled |-> TRUE,
         priority |-> "high",
         guideline |-> "WCAG 2.5.3 - Label in Name",
         wcag_description |-> "For user interface components...",
         why_it_matters |-> "Screen readers announce the...",
         how_to_fix |-> "Ensure visible labels match...",
         success_criteria |-> "Level A"] @@
    "touch-target-size" :>
        [enabled |-> TRUE,
         priority |-> "high",
         guideline |-> "WCAG 2.5.5 - Target Size (Enhanced)",
         wcag_description |-> "The size of the...",
         why_it_matters |-> "Small touch targets are...",
         how_to_fix |-> "Ensure interactive elements are...",
         success_criteria |-> "Level AAA",
         min_size |-> 44] @@
    "enhanced-target-size" :>
        [enabled |-> TRUE,
         priority |-> "medium",
         guideline |-> "WCAG 2.5.8 - Target Size (Minimum)",
         wcag_description |-> "Targets must have a...",
         why_it_matters |-> "Larger targets are easier...",
         how_to_fix |-> "Increase touch target size...",
         success_criteria |-> "Level AA",
         min_size |-> 48] @@
    "page-language" :>
        [enabled |-> TRUE,
         priority |-> "high",
         guideline |-> "WCAG 3.1.1 - Language of Page",
         wcag_description |-> "The default human language...",
         why_it_matters |-> "Screen readers need to...",
         how_to_fix |-> "Set the lang attribute...",
         success_criteria |-> "Level A"] @@
    "consistent-navigation" :>
        [enabled |-> TRUE,
         priority |-> "medium",
         guideline |-> "WCAG 3.2.3 - Consistent Navigation",
         wcag_description |-> "Navigational mechanisms that are...",
         why_it_matters |-> "Consistency helps users learn...",
         how_to_fix |-> "Keep navigation in the...",
         success_criteria |-> "Level AA"] @@
    "error-suggestion" :>
        [enabled |-> TRUE,
         priority |-> "medium",
         guideline |-> "WCAG 3.3.3 - Error Suggestion",
         wcag_description |-> "If an input error...",
         why_it_matters |-> "Users with cognitive disabilities...",
         how_to_fix |-> "Provide specific, helpful error...",
         success_criteria |-> "Level AA"] @@
    "name-role-value" :>
        [enabled |-> TRUE,
         priority |-> "high",
         guideline |-> "WCAG 4.1.2 - Name, Role, Value",
         wcag_description |-> "For all user interface...",
         why_it_matters |-> "Assistive technologies need to...",
         how_to_fix |-> "Use proper semantic HTML...",
         success_criteria |-> "Level A"] @@
    "mobile-touch-target" :>
        [enabled |-> TRUE,
         priority |-> "high",
         guideline |-> "WCAG M.1.1 - Touch Target Size",
         wcag_description |-> "Touch targets must be...",
         why_it_matters |-> "Small touch targets cause...",
         how_to_fix |-> "Increase touch target size...",
         success_criteria |-> "Level AA",
         min_size |-> 44] @@
    "missing-labels" :>
        [enabled |-> TRUE,
         priority |-> "critical",
         guideline |-> "WCAG 1.3.1 - Info and Relationships",
         wcag_description |-> "All interactive elements must...",
         why_it_matters |-> "Screen reader users cannot...",
         how_to_fix |-> "Add visible text labels...",
         success_criteria |-> "Level A"] @@
    "image-descriptions" :>
        [enabled |-> TRUE,
         priority |-> "critical",
         guideline |-> "WCAG 1.1.1 - Non-text Content",
         wcag_description |-> "Images that convey meaning...",
         why_it_matters |-> "Visually impaired users need...",
         how_to_fix |-> "Add alt text to...",
         success_criteria |-> "Level A"] @@
    "overlapping-elements" :>
        [enabled |-> TRUE,
         priority |-> "medium",
         guideline |-> "WCAG 2.5.1 - Pointer Gestures",
         wcag_description |-> "Interactive elements must not...",
         why_it_matters |-> "Overlapping elements cause accidental...",
         how_to_fix |-> "Ensure adequate spacing between...",
         success_criteria |-> "Level A"] @@
    "form-labels" :>
        [enabled |-> TRUE,
         priority |-> "high",
         guideline |-> "WCAG 3.3.2 - Labels or Instructions",
         wcag_description |-> "Labels or instructions are...",
         why_it_matters |-> "Screen reader users need...",
         how_to_fix |-> "Associate visible labels with...",
         success_criteria |-> "Level A"] @@
    "button-purpose" :>
        [enabled |-> TRUE,
         priority |-> "high",
         guideline |-> "WCAG 2.4.4 - Link Purpose (In Context)",
         wcag_description |-> "The purpose of each...",
         why_it_matters |-> "Users need to understand...",
         how_to_fix |-> "Use descriptive button text...",
         success_criteria |-> "Level A"]

\* dict.update: the fields of rule_config laid over those of d
update(d, rule_config) ==
    [k \in DOMAIN d \cup DOMAIN rule_config |->
        IF k \in DOMAIN rule_config THEN rule_config[k] ELSE d[k]]

\* An override of a known rule taking the place of the whole default entry.
merged_rules_replace(custom_rules) ==
    [rule_id \in DOMAIN default_rules \cup DOMAIN custom_rules |->
        IF rule_id \in DOMAIN custom_rules THEN custom_rules[rule_id]
        ELSE default_rules[rule_id]]

\* merged_rules = self.default_rules.copy()
\* for rule_id, rule_config in custom_rules.items():
\*     if rule_id in merged_rules: merged_rules[rule_id].update(rule_config)
\*     else: merged_rules[rule_id] = rule_config
merged_rules(custom_rules) ==
    [rule_id \in DOMAIN default_rules \cup DOMAIN custom_rules |->
        IF rule_id \in DOMAIN default_rules
        THEN IF rule_id \in DOMAIN custom_rules
             THEN update(default_rules[rule_id], custom_rules[rule_id])
             ELSE default_rules[rule_id]
        ELSE custom_rules[rule_id]]

\* with open(rules_config, 'r') as f: custom_rules = json.load(f)
\* The exception this raises for the state of the file ("" for none): a file
\* that is not there, one that cannot be opened for reading, one whose text
\* is no JSON, one that holds a JSON object.
open_and_load(file) ==
    CASE file = "missing" -> "FileNotFoundError"
      [] file = "unreadable" -> "PermissionError"
      [] file = "invalid_json" -> "JSONDecodeError"
      [] OTHER -> ""

\* self.default_rules after the merge loop. merged_rules is a shallow copy:
\* its entries for the default ids are the very dicts of self.default_rules,
\* and merged_rules[rule_id].update(rule_config) writes into them; an entry
\* for a new id is put into the copy only.
default_rules_after(custom_rules) ==
    [rule_id \in DOMAIN default_rules |-> merged_rules(custom_rules)[rule_id]]

\* What a call of load_rules_config ends with: the catalog it returns, or the
\* exception that leaves it, and self.default_rules as the call leaves it.
LoadReturned(catalog, defaults) ==
    [raised |-> FALSE, exception |-> "", rules |-> catalog, default_rules |-> defaults]
LoadRaised(exception) ==
    [raised |-> TRUE, exception |-> exception, rules |-> <<>>,
     default_rules |-> default_rules]

\* load_rules_config: None gives the defaults; a str is opened and parsed,
\* with `except FileNotFoundError` alone giving the defaults and any other
\* exception leaving the method; a dict, or the parsed file, is merged.
load_rules_config(config) ==
    IF config.kind = "none" THEN LoadReturned(default_rules, default_rules)
    ELSE IF config.kind = "str" /\ open_and_load(config.file) = "FileNotFoundError"
    THEN LoadReturned(default_rules, default_rules)
    ELSE IF config.kind = "str" /\ open_and_load(config.file) # ""
    THEN LoadRaised(open_and_load(config.file))
    ELSE LoadReturned(merged_rules(config.custom_rules),
                      default_rules_after(config.custom_rules))

\* self.rules = self.load_rules_config(rules_config), set once at construction
rules == load_rules_config(rules_config).rules

\* ============================================================ element model
\* A raw <node> of the UI tree: its attributes as strings. `bounds` is the
\* attribute as parse_bounds sees it after its replace/split: present or not,
\* and the comma-separated parts, each an integer literal or not.
IntPart(n) == [is_int |-> TRUE, value |-> n]
BadPart == [is_int |-> FALSE, value |-> 0]
NoBoundsAttr == [present |-> FALSE, parts |-> <<>>]
BoundsAttr(parts) == [present |-> TRUE, parts |-> parts]
\* the attribute "[x1,y1][x2,y2]"
BoundsStr(x1, y1, x2, y2) ==
    BoundsAttr(<<IntPart(x1), IntPart(y1), IntPart(x2), IntPart(y2)>>)

\* The four integers returned in the order of the attribute.
parse_bounds_as_written(bounds_str) ==
    LET parts == bounds_str.parts
    IN  IF Len(parts) = 4 /\ \A k \in 1..4 : parts[k].is_int
        THEN <<parts[1].value, parts[2].value, parts[3].value, parts[4].value>>
        ELSE None

\* parts = ...split(","); x1, y1, x2, y2 = map(int, parts); min/max swap;
\* any exception (a part that is no integer, not four parts) gives None.
parse_bounds(bounds_str) ==
    LET parts == bounds_str.parts
    IN  IF Len(parts) = 4 /\ \A k \in 1..4 : parts[k].is_int
        THEN LET x1 == parts[1].value
                 y1 == parts[2].value
                 x2 == parts[3].value
                 y2 == parts[4].value
             IN  <<Min(x1, x2), Min(y1, y2), Max(x1, x2), Max(y1, y2)>>
        ELSE None

\* The empty string, returned when no xpath is computed.
NoXPath == [by |-> "", class_name |-> <<>>, value |-> <<>>]

\* get_formatted_xpath: "//" + class_name + "[@" + by + "='" + value + "']"
\* by resource-id, else content-desc, else text (the raw attributes), else the
\* structural path of the node, here its place k in document order.
get_formatted_xpath(node, k) ==
    LET class_name == last_segment(node.class)
    IN  IF node.resource_id # <<>>
        THEN [by |-> "resource-id", class_name |-> class_name,
              value |-> node.resource_id]
        ELSE IF node.content_desc # <<>>
        THEN [by |-> "content-desc", class_name |-> class_name,
              value |-> node.content_desc]
        ELSE IF node.text # <<>>
        THEN [by |-> "text", class_name |-> class_name, value |-> node.text]
        ELSE [by |-> "path", class_name |-> <<>>,
              value |-> <<"/", "h", "i", "e", "r", "a", "r", "c", "h", "y", "/", "n", "o", "d", "e", "[">> \o str_int(k) \o <<"]">>]

\* element_data of the first pass of analyze_accessibility, for the k-th node
element_data(node, k) ==
    LET bounds_str == node.bounds
        \* self.parse_bounds(bounds_str) if bounds_str else None
        coords == IF bounds_str.present /\ bounds_str.parts # <<>>
                  THEN parse_bounds(bounds_str)
                  ELSE None
    IN  [bounds |-> coords,
         text |-> strip(node.text),
         content_desc |-> strip(node.content_desc),
         clickable |-> (node.clickable = "true"),
         focusable |-> (node.focusable = "true"),
         long_clickable |-> (node.long_clickable = "true"),
         class |-> node.class,
         resource_id |-> node.resource_id,
         xpath |-> IF coords # None THEN get_formatted_xpath(node, k)
                   ELSE NoXPath]

\* for node in root.iter("node"): all_elements.append(element_data)
collect_elements(nodes) == [k \in DOMAIN nodes |-> element_data(nodes[k], k)]

\* Python truthiness of element["bounds"]: None is false, a 4-tuple is true.
HasBounds(e) == e.bounds # None

FormClasses ==
    {<<"E", "d", "i", "t", "T", "e", "x", "t">>,
     <<"S", "p", "i", "n", "n", "e", "r">>,
     <<"C", "h", "e", "c", "k", "B", "o", "x">>,
     <<"R", "a", "d", "i", "o", "B", "u", "t", "t", "o", "n">>,
     <<"S", "w", "i", "t", "c", "h">>,
     <<"S", "e", "e", "k", "B", "a", "r">>}

\* is_form_element: any(form_class in class_name for form_class in [...])
is_form_element(e) == \E form_class \in FormClasses : contains(e.class, form_class)

\* The three derived lists of the first pass (views of all_elements, in order).
clickable_of(elements) == SelectSeq(elements, LAMBDA e : e.clickable)
focusable_of(elements) == SelectSeq(elements, LAMBDA e : e.focusable)
form_of(elements) == SelectSeq(elements, is_form_element)

\* ============================================================ rule checks
\* The issue dict an evaluator appends for element e.
issue(rule_id, default_priority, template, args, e, guideline) ==
    [rule |-> rule_id,
     priority |-> Get(rules[rule_id], "priority", default_priority),
     message |-> [template |-> template, args |-> args],
     bounds |-> e.bounds,
     xpath |-> e.xpath,
     resource_id |-> e.resource_id,
     guideline |-> guideline]

\* The evaluators below share one shape,
\*   for element in elements: if <test>: issues.append({...})
\* written as the elements that pass the test (SelectSeq keeps their order),
\* each turned into its issue.
ImageView == <<"I", "m", "a", "g", "e", "V", "i", "e", "w">>
TextView == <<"T", "e", "x", "t", "V", "i", "e", "w">>
Button == <<"B", "u", "t", "t", "o", "n">>

check_text_alternatives(all_elements) ==
    LET hits == SelectSeq(all_elements, LAMBDA e :
                    contains(e.class, ImageView)
                    /\ e.content_desc = <<>> /\ e.text = <<>>)
    IN  [k \in DOMAIN hits |->
            issue("text-alternatives", "critical",
                "Image element missing text alternative (content description)",
                <<>>, hits[k], "WCAG 1.1.1 - Non-text Content")]

check_info_relationships(all_elements) ==
    LET hits == SelectSeq(all_elements, LAMBDA e :
                    e.clickable /\ e.resource_id = <<>> /\ e.content_desc = <<>>)
    IN  [k \in DOMAIN hits |->
            issue("info-relationships", "high",
                "Interactive element missing programmatic identification",
                <<>>, hits[k], "WCAG 1.3.1 - Info and Relationships")]

color_indicators ==
    {<<"r", "e", "d">>,
     <<"g", "r", "e", "e", "n">>,
     <<"b", "l", "u", "e">>,
     <<"c", "o", "l", "o", "r">>,
     <<"c", "o", "l", "o", "r", "e", "d">>,
     <<"h", "i", "g", "h", "l", "i", "g", "h", "t", "e", "d">>,
     <<"c", "o", "l", "o", "u", "r", "e", "d">>}

is_color_dependent_text(text) ==
    \E indicator \in color_indicators : contains(lower(text), indicator)

check_color_not_only(all_elements) ==
    LET hits == SelectSeq(all_elements, LAMBDA e :
                    e.text # <<>> /\ is_color_dependent_text(e.text))
    IN  [k \in DOMAIN hits |->
            issue("color-not-only", "high",
                "Element may rely solely on color to convey information",
                <<>>, hits[k], "WCAG 1.4.1 - Use of Color")]

\* The computation without the test for a crop of no area.
calculate_color_contrast_any_crop(screenshot, bounds) ==
    IF ~screenshot.exists \/ bounds = None THEN 0
    ELSE LET d == 4 * screenshot.gray + 51
         IN  (2 * 107100 + d) \div (2 * d)

\* calculate_color_contrast on a screenshot of one uniform gray level
\* (r = g = b = gray): luminance = gray/255, contrast_ratio =
\* (luminance + 0.05)/1.05, replaced by its reciprocal when that is larger
\* (it always is), rounded to two decimals. The value is in hundredths;
\* 0 stands for the None of an unusable screenshot or crop.
calculate_color_contrast(screenshot, bounds) ==
    IF ~screenshot.exists \/ bounds = None THEN 0
    ELSE IF bounds[1] >= bounds[3] \/ bounds[2] >= bounds[4] THEN 0
    ELSE LET d == 4 * screenshot.gray + 51
         IN  (2 * 107100 + d) \div (2 * d)

check_color_contrast(all_elements, screenshot) ==
    LET threshold == Get(rules["color-contrast"], "threshold", 450)
        contrast(e) == calculate_color_contrast(screenshot, e.bounds)
    IN  LET hits == SelectSeq(all_elements, LAMBDA e :
                        /\ HasBounds(e) /\ e.text # <<>>
                        /\ (contains(e.class, TextView) \/ contains(e.class, Button))
                        /\ contrast(e) # 0 /\ contrast(e) < threshold)
        IN  [k \in DOMAIN hits |->
                update(issue("color-contrast", "high",
                    "Text has insufficient color contrast (%:1)",
                    <<str_int(contrast(hits[k]))>>, hits[k],
                    "WCAG 1.4.3 - Contrast (Minimum)"),
                    [contrast |-> contrast(hits[k])])]

check_images_of_text(all_elements) ==
    LET hits == SelectSeq(all_elements, LAMBDA e :
                    contains(e.class, ImageView) /\ e.content_desc # <<>>
                    /\ Len(e.content_desc) > 20)
    IN  [k \in DOMAIN hits |->
            issue("images-of-text", "medium",
                "Image appears to contain text that should be real text",
                <<>>, hits[k], "WCAG 1.4.5 - Images of Text")]

\* list.sort(key=lambda e: (e["bounds"][1], e["bounds"][0])): a stable sort
\* by top, then left.
focus_key_le(a, b) ==
    \/ a.bounds[2] < b.bounds[2]
    \/ (a.bounds[2] = b.bounds[2] /\ a.bounds[1] <= b.bounds[1])

RECURSIVE insert_sorted(_, _)
insert_sorted(sorted, e) ==
    IF sorted = <<>> THEN <<e>>
    ELSE IF focus_key_le(sorted[Len(sorted)], e) THEN Append(sorted, e)
    ELSE Append(insert_sorted(SubSeq(sorted, 1, Len(sorted) - 1), e),
                sorted[Len(sorted)])

\* The list left in document order.
document_order(elements) == elements

sort_by_top_left(elements) ==
    LET acc[k \in 0..Len(elements)] ==
            IF k = 0 THEN <<>> ELSE insert_sorted(acc[k - 1], elements[k])
    IN  acc[Len(elements)]

\* return curr_bounds[1] < prev_bounds[1] - 100
has_illogical_focus_order(prev_element, curr_element) ==
    curr_element.bounds[2] < prev_element.bounds[2] - 100

check_focus_order(focusable_elements) ==
    LET focusable_with_bounds ==
            sort_by_top_left(SelectSeq(focusable_elements, HasBounds))
        acc[k \in 1..Max(1, Len(focusable_with_bounds))] ==
            LET rest == IF k = 1 THEN <<>> ELSE acc[k - 1]
            IN  IF k >= 2 /\ has_illogical_focus_order(focusable_with_bounds[k - 1],
                                                       focusable_with_bounds[k])
                THEN Append(rest,
                            issue("focus-order", "high",
                                  "Potential illogical focus order between elements",
                                  <<>>, focusable_with_bounds[k],
                                  "WCAG 2.4.3 - Focus Order"))
                ELSE rest
    IN  acc[Max(1, Len(focusable_with_bounds))]

unclear_link_texts ==
    {<<"c", "l", "i", "c", "k", " ", "h", "e", "r", "e">>,
     <<"r", "e", "a", "d", " ", "m", "o", "r", "e">>,
     <<"l", "i", "n", "k">>,
     <<"h", "e", "r", "e">>,
     <<"t", "h", "i", "s">>,
     <<"m", "o", "r", "e", " ", "i", "n", "f", "o">>}

\* return text.lower() in unclear_texts or len(text.strip()) < 3
is_unclear_link_text(text) ==
    lower(text) \in unclear_link_texts \/ Len(strip(text)) < 3

check_link_purpose(clickable_elements) ==
    LET hits == SelectSeq(clickable_elements, LAMBDA e :
                    e.text # <<>> /\ is_unclear_link_text(e.text))
    IN  [k \in DOMAIN hits |->
            issue("link-purpose", "high",
                "Link purpose may be unclear: '%'",
                <<hits[k].text>>, hits[k], "WCAG 2.4.4 - Link Purpose (In Context)")]

check_pointer_gestures(all_elements) ==
    LET hits == SelectSeq(all_elements, LAMBDA e :
                    e.long_clickable /\ ~e.clickable)
    IN  [k \in DOMAIN hits |->
            issue("pointer-gestures", "medium",
                "Element requires long-press gesture without simple click alternative",
                <<>>, hits[k], "WCAG 2.5.1 - Pointer Gestures")]

\* t1 = text1.lower().strip(); t2 = text2.lower().strip()
\* return t1 in t2 or t2 in t1 or t1 == t2
\* The comparison without lower(): a substring test that minds the case.
texts_are_similar_cased(text1, text2) ==
    LET t1 == strip(text1)
        t2 == strip(text2)
    IN  contains(t2, t1) \/ contains(t1, t2) \/ t1 = t2

\* t1 = text1.lower().strip(); t2 = text2.lower().strip()
\* return t1 in t2 or t2 in t1 or t1 == t2
texts_are_similar(text1, text2) ==
    LET t1 == strip(lower(text1))
        t2 == strip(lower(text2))
    IN  contains(t2, t1) \/ contains(t1, t2) \/ t1 = t2

check_label_in_name(all_elements) ==
    LET hits == SelectSeq(all_elements, LAMBDA e :
                    /\ e.text # <<>> /\ e.content_desc # <<>>
                    /\ e.text # e.content_desc
                    /\ ~texts_are_similar(e.text, e.content_desc))
    IN  [k \in DOMAIN hits |->
            issue("label-in-name", "high",
                "Visible text '%' doesn't match accessible name '%'",
                <<hits[k].text, hits[k].content_desc>>, hits[k],
                "WCAG 2.5.3 - Label in Name")]

\* The size test written with <= : an element exactly min_size wide or high
\* is flagged too.
check_target_size_le(all_elements, rule_id, guideline) ==
    LET min_size == Get(rules[rule_id], "min_size", 44)
        width(e) == e.bounds[3] - e.bounds[1]
        height(e) == e.bounds[4] - e.bounds[2]
    IN  LET hits == SelectSeq(all_elements, LAMBDA e :
                        /\ HasBounds(e) /\ e.clickable
                        /\ (width(e) <= min_size \/ height(e) <= min_size))
        IN  [k \in DOMAIN hits |->
                issue(rule_id, "high",
                    "Touch target too small %x%px (minimum %x%px)",
                    <<str_int(width(hits[k])), str_int(height(hits[k])),
                    str_int(min_size), str_int(min_size)>>,
                    hits[k], guideline)]

\* _check_target_size
check_target_size(all_elements, rule_id, guideline) ==
    LET min_size == Get(rules[rule_id], "min_size", 44)
        width(e) == e.bounds[3] - e.bounds[1]
        height(e) == e.bounds[4] - e.bounds[2]
    IN  LET hits == SelectSeq(all_elements, LAMBDA e :
                        /\ HasBounds(e) /\ e.clickable
                        /\ (width(e) < min_size \/ height(e) < min_size))
        IN  [k \in DOMAIN hits |->
                issue(rule_id, "high",
                    "Touch target too small %x%px (minimum %x%px)",
                    <<str_int(width(hits[k])), str_int(height(hits[k])),
                    str_int(min_size), str_int(min_size)>>,
                    hits[k], guideline)]

check_touch_target_size(all_elements) ==
    check_target_size(all_elements, "touch-target-size",
                      "WCAG 2.5.5 - Target Size (Enhanced)")

check_enhanced_target_size(all_elements) ==
    check_target_size(all_elements, "enhanced-target-size",
                      "WCAG 2.5.8 - Target Size (Minimum)")

check_mobile_touch_target(all_elements) ==
    check_target_size(all_elements, "mobile-touch-target",
                      "WCAG M.1.1 - Touch Target Size")

check_name_role_value(all_elements) ==
    LET hits == SelectSeq(all_elements, LAMBDA e :
                    (e.clickable \/ e.focusable)
                    /\ ~(e.text # <<>> \/ e.content_desc # <<>>))
    IN  [k \in DOMAIN hits |->
            issue("name-role-value", "high",
                "Interactive element missing accessible name",
                <<>>, hits[k], "WCAG 4.1.2 - Name, Role, Value")]

check_missing_labels(clickable_elements) ==
    LET hits == SelectSeq(clickable_elements, LAMBDA e :
                    e.text = <<>> /\ e.content_desc = <<>>)
    IN  [k \in DOMAIN hits |->
            issue("missing-labels", "critical",
                "Clickable element has no visible label or content description",
                <<>>, hits[k], "WCAG 1.3.1 - Info and Relationships")]

check_image_descriptions(all_elements) ==
    LET hits == SelectSeq(all_elements, LAMBDA e :
                    contains(e.class, ImageView) /\ e.content_desc = <<>>)
    IN  [k \in DOMAIN hits |->
            issue("image-descriptions", "critical",
                "Image missing content description",
                <<>>, hits[k], "WCAG 1.1.1 - Non-text Content")]

\* The loop reporting the second element of an overlapping pair.
RECURSIVE overlapping_loop_second(_, _, _)
overlapping_loop_second(clickable_elements, i, j) ==
    IF i > Len(clickable_elements) THEN <<>>
    ELSE IF j > Len(clickable_elements)
    THEN overlapping_loop_second(clickable_elements, i + 1, i + 2)
    ELSE LET elem1 == clickable_elements[i]
             elem2 == clickable_elements[j]
             found == IF /\ HasBounds(elem1) /\ HasBounds(elem2)
                         /\ elements_overlap(elem1.bounds, elem2.bounds)
                      THEN <<issue("overlapping-elements", "medium",
                                   "Clickable elements overlap and may cause touch errors",
                                   <<>>, elem2, "WCAG 2.5.1 - Pointer Gestures")>>
                      ELSE <<>>
         IN  found \o overlapping_loop_second(clickable_elements, i, j + 1)

\* for i in range(len(clickable_elements)):
\*     for j in range(i+1, len(clickable_elements)):
\*         if elem1["bounds"] and elem2["bounds"] and elements_overlap(...):
\*             issues.append({... "bounds": elem1["bounds"] ...})
RECURSIVE overlapping_loop(_, _, _)
overlapping_loop(clickable_elements, i, j) ==
    IF i > Len(clickable_elements) THEN <<>>
    ELSE IF j > Len(clickable_elements)
    THEN overlapping_loop(clickable_elements, i + 1, i + 2)
    ELSE LET elem1 == clickable_elements[i]
             elem2 == clickable_elements[j]
             found == IF /\ HasBounds(elem1) /\ HasBounds(elem2)
                         /\ elements_overlap(elem1.bounds, elem2.bounds)
                      THEN <<issue("overlapping-elements", "medium",
                                   "Clickable elements overlap and may cause touch errors",
                                   <<>>, elem1, "WCAG 2.5.1 - Pointer Gestures")>>
                      ELSE <<>>
         IN  found \o overlapping_loop(clickable_elements, i, j + 1)

check_overlapping_elements(clickable_elements) ==
    overlapping_loop(clickable_elements, 1, 2)

check_form_labels(form_elements) ==
    LET hits == SelectSeq(form_elements, LAMBDA e :
                    e.text = <<>> /\ e.content_desc = <<>>)
    IN  [k \in DOMAIN hits |->
            issue("form-labels", "high",
                "Form element missing label",
                <<>>, hits[k], "WCAG 3.3.2 - Labels or Instructions")]

unclear_button_texts ==
    {<<"s", "u", "b", "m", "i", "t">>,
     <<"o", "k">>,
     <<"c", "a", "n", "c", "e", "l">>,
     <<"y", "e", "s">>,
     <<"n", "o">>,
     <<"c", "l", "i", "c", "k">>,
     <<"b", "u", "t", "t", "o", "n">>}

\* return text.lower() in unclear_texts or len(text.strip()) == 0
is_unclear_button_text(text) ==
    lower(text) \in unclear_button_texts \/ Len(strip(text)) = 0

check_button_purpose(clickable_elements) ==
    LET hits == SelectSeq(clickable_elements, LAMBDA e :
                    contains(e.class, Button)
                    /\ (e.text = <<>> \/ is_unclear_button_text(e.text)))
    IN  [k \in DOMAIN hits |->
            issue("button-purpose", "high",
                "Button purpose may be unclear: '%'",
                <<hits[k].text>>, hits[k], "WCAG 2.4.4 - Link Purpose (In Context)")]

\* The rule_checks table of analyze_accessibility, in its declared order.
rule_checks ==
    <<"text-alternatives",
      "info-relationships",
      "color-not-only",
      "color-contrast",
      "images-of-text",
      "text-spacing",
      "focus-order",
      "link-purpose",
      "focus-visible",
      "pointer-gestures",
      "label-in-name",
      "touch-target-size",
      "enhanced-target-size",
      "page-language",
      "consistent-navigation",
      "error-suggestion",
      "name-role-value",
      "mobile-touch-target",
      "missing-labels",
      "image-descriptions",
      "overlapping-elements",
      "form-labels",
      "button-purpose">>

\* check_method(all_elements, clickable_elements, focusable_elements,
\*              form_elements, screenshot_file) for the method listed with
\* rule_id; text-spacing, focus-visible, page-language,
\* consistent-navigation and error-suggestion return no issue.
check_method(rule_id, all_elements, screenshot) ==
    LET clickable_elements == clickable_of(all_elements)
        focusable_elements == focusable_of(all_elements)
        form_elements == form_of(all_elements)
    IN  CASE rule_id = "text-alternatives" -> check_text_alternatives(all_elements)
          [] rule_id = "info-relationships" -> check_info_relationships(all_elements)
          [] rule_id = "color-not-only" -> check_color_not_only(all_elements)
          [] rule_id = "color-contrast" -> check_color_contrast(all_elements, screenshot)
          [] rule_id = "images-of-text" -> check_images_of_text(all_elements)
          [] rule_id = "focus-order" -> check_focus_order(focusable_elements)
          [] rule_id = "link-purpose" -> check_link_purpose(clickable_elements)
          [] rule_id = "pointer-gestures" -> check_pointer_gestures(all_elements)
          [] rule_id = "label-in-name" -> check_label_in_name(all_elements)
          [] rule_id = "touch-target-size" -> check_touch_target_size(all_elements)
          [] rule_id = "enhanced-target-size" -> check_enhanced_target_size(all_elements)
          [] rule_id = "name-role-value" -> check_name_role_value(all_elements)
          [] rule_id = "mobile-touch-target" -> check_mobile_touch_target(all_elements)
          [] rule_id = "missing-labels" -> check_missing_labels(clickable_elements)
          [] rule_id = "image-descriptions" -> check_image_descriptions(all_elements)
          [] rule_id = "overlapping-elements" -> check_overlapping_elements(clickable_elements)
          [] rule_id = "form-labels" -> check_form_labels(form_elements)
          [] rule_id = "button-purpose" -> check_button_purpose(clickable_elements)
          [] OTHER -> <<>>

\* The loop with the enabled flag never read: every listed method runs.
run_rule_checks_all(all_elements, screenshot) ==
    LET acc[k \in 0..Len(rule_checks)] ==
            IF k = 0 THEN <<>>
            ELSE acc[k - 1] \o check_method(rule_checks[k], all_elements, screenshot)
    IN  acc[Len(rule_checks)]

\* The loop with the findings of a rule put in front of the list.
run_rule_checks_in_front(all_elements, screenshot) ==
    LET enabled(rule_id) ==
            IF rule_id \in DOMAIN rules THEN Get(rules[rule_id], "enabled", TRUE)
            ELSE TRUE
        acc[k \in 0..Len(rule_checks)] ==
            IF k = 0 THEN <<>>
            ELSE IF enabled(rule_checks[k])
                 THEN check_method(rule_checks[k], all_elements, screenshot) \o acc[k - 1]
                 ELSE acc[k - 1]
    IN  acc[Len(rule_checks)]

\* for rule_id, check_method in rule_checks:
\*     if self.rules.get(rule_id, {}).get('enabled', True): issues.extend(...)
run_rule_checks(all_elements, screenshot) ==
    LET enabled(rule_id) ==
            IF rule_id \in DOMAIN rules THEN Get(rules[rule_id], "enabled", TRUE)
            ELSE TRUE
        acc[k \in 0..Len(rule_checks)] ==
            IF k = 0 THEN <<>>
            ELSE IF enabled(rule_checks[k])
                 THEN acc[k - 1] \o check_method(rule_checks[k], all_elements, screenshot)
                 ELSE acc[k - 1]
    IN  acc[Len(rule_checks)]

\* The update with the guideline left as the evaluator wrote it.
add_wcag_details_keep(i) ==
    IF i.rule \in DOMAIN rules
    THEN update(i, [wcag_description |-> Get(rules[i.rule], "wcag_description", ""),
                    why_it_matters |-> Get(rules[i.rule], "why_it_matters", ""),
                    how_to_fix |-> Get(rules[i.rule], "how_to_fix", ""),
                    success_criteria |-> Get(rules[i.rule], "success_criteria", "")])
    ELSE i

\* "Add WCAG details to each issue": issue.update({...}) when the rule is in
\* the catalog.
add_wcag_details(i) ==
    IF i.rule \in DOMAIN rules
    THEN update(i, [guideline |-> Get(rules[i.rule], "guideline", ""),
                    wcag_description |-> Get(rules[i.rule], "wcag_description", ""),
                    why_it_matters |-> Get(rules[i.rule], "why_it_matters", ""),
                    how_to_fix |-> Get(rules[i.rule], "how_to_fix", ""),
                    success_criteria |-> Get(rules[i.rule], "success_criteria", "")])
    ELSE i

enrich(issues) == [k \in DOMAIN issues |-> add_wcag_details(issues[k])]

\* ============================================================ deduplication
\* The outcome of the deduplication loop: the list `unique`, or the TypeError
\* of tuple(None) when an issue carries "bounds": None.
DedupReturned(unique) == [raised |-> FALSE, unique |-> unique]
DedupRaised == [raised |-> TRUE, unique |-> <<>>]

\* The key without the rule: the bounds alone.
dedup_key_bounds(i) == <<Get(i, "bounds", <<>>)>>

\* key = (tuple(i.get("bounds", ())), i["rule"])
dedup_key(i) == <<Get(i, "bounds", <<>>), i.rule>>

\* tuple(None) raises TypeError
key_raises(i) == "bounds" \in DOMAIN i /\ i.bounds = None

\* The loop with the message made part of the key.
RECURSIVE dedup_loop_by_message(_, _, _)
dedup_loop_by_message(issues, unique, seen) ==
    IF issues = <<>> THEN DedupReturned(unique)
    ELSE LET i == Head(issues)
             key == <<dedup_key(i), i.message>>
         IN  IF key_raises(i) THEN DedupRaised
             ELSE IF key \notin seen
             THEN dedup_loop_by_message(Tail(issues), Append(unique, i), seen \cup {key})
             ELSE dedup_loop_by_message(Tail(issues), unique, seen)

\* The loop with a dropped duplicate clearing its key from `seen`.
RECURSIVE dedup_loop_forget(_, _, _)
dedup_loop_forget(issues, unique, seen) ==
    IF issues = <<>> THEN DedupReturned(unique)
    ELSE LET i == Head(issues)
             key == dedup_key(i)
         IN  IF key_raises(i) THEN DedupRaised
             ELSE IF key \notin seen
             THEN dedup_loop_forget(Tail(issues), Append(unique, i), seen \cup {key})
             ELSE dedup_loop_forget(Tail(issues), unique, seen \ {key})

\* for i in issues: key = ...; if key not in seen: unique.append(i); seen.add(key)
RECURSIVE dedup_loop(_, _, _)
dedup_loop(issues, unique, seen) ==
    IF issues = <<>> THEN DedupReturned(unique)
    ELSE LET i == Head(issues)
             key == dedup_key(i)
         IN  IF key_raises(i) THEN DedupRaised
             ELSE IF key \notin seen
             THEN dedup_loop(Tail(issues), Append(unique, i), seen \cup {key})
             ELSE dedup_loop(Tail(issues), unique, seen)

\* The loop with a later issue of a seen key taking the place of the kept one.
RECURSIVE dedup_loop_last(_, _, _)
dedup_loop_last(issues, unique, seen) ==
    IF issues = <<>> THEN DedupReturned(unique)
    ELSE LET i == Head(issues)
             key == dedup_key(i)
         IN  IF key_raises(i) THEN DedupRaised
             ELSE IF key \notin seen
             THEN dedup_loop_last(Tail(issues), Append(unique, i), seen \cup {key})
             ELSE dedup_loop_last(Tail(issues),
                     [k \in DOMAIN unique |->
                         IF dedup_key(unique[k]) = key THEN i ELSE unique[k]],
                     seen)

deduplicate_by_message(issues) == dedup_loop_by_message(issues, <<>>, {})
deduplicate_last(issues) == dedup_loop_last(issues, <<>>, {})
deduplicate_forget(issues) == dedup_loop_forget(issues, <<>>, {})

\* unique = []; seen = set(); the loop; return unique
deduplicate(issues) == dedup_loop(issues, <<>>, {})

\* ============================================================ inputs of a scan
\* rules_config as handed to the constructor: None, a dict of overrides, or
\* the path (a str) of a file in one of the states of open_and_load, holding
\* custom_rules when it is a JSON object.
NoConfig == [kind |-> "none", file |-> "", custom_rules |-> <<>>]
DictConfig(custom_rules) == [kind |-> "dict", file |-> "", custom_rules |-> custom_rules]
PathConfig(file, custom_rules) == [kind |-> "str", file |-> file, custom_rules |-> custom_rules]

\* The catalogs the scans are run under: the defaults, and overrides that
\* raise one minimum, lower another, disable a rule and reword another.
Configs ==
    {NoConfig,
     DictConfig(("touch-target-size" :> [min_size |-> 48]) @@
                ("mobile-touch-target" :> [min_size |-> 43, priority |-> "low"]) @@
                ("image-descriptions" :> [enabled |-> FALSE]) @@
                ("text-alternatives" :> [priority |-> "medium",
                                         guideline |-> "Custom 1.1.1",
                                         how_to_fix |-> "Describe the image"]))}

\* The screenshot file: missing, or an image of one uniform gray level.
NoScreenshot == [exists |-> FALSE, gray |-> 0]
Screenshots == {NoScreenshot, [exists |-> TRUE, gray |-> 255]}

Node(bounds, class, text, content_desc, clickable, focusable, long_clickable, resource_id) ==
    [bounds |-> bounds, class |-> class, text |-> text,
     content_desc |-> content_desc, clickable |-> clickable,
     focusable |-> focusable, long_clickable |-> long_clickable,
     resource_id |-> resource_id]

\* A bounds attribute with a part missing, such as "[0,0][50]".
MalformedBounds == BoundsAttr(<<IntPart(0), IntPart(0), IntPart(50)>>)

\* Buttons around the target-size minimums 44 and 48, one that shares only an
\* edge with the 44 x 44 one, one far from all, one with its corners swapped.
ButtonNodes ==
    {Node(b, <<"a", "n", "d", "r", "o", "i", "d", ".", "w", "i", "d", "g", "e", "t", ".", "B", "u", "t", "t", "o", "n">>, <<"S", "a", "v", "e">>, <<>>, "true", "true", "false",
          <<"i", "d", "/", "s", "a", "v", "e">>) :
        b \in {BoundsStr(0, 0, 44, 44), BoundsStr(0, 0, 43, 44),
               BoundsStr(0, 0, 48, 48), BoundsStr(0, 0, 48, 47),
               BoundsStr(44, 0, 88, 44), BoundsStr(200, 200, 248, 248),
               BoundsStr(44, 44, 0, 0)}}

\* Images with and without a description, with usable, missing and malformed
\* bounds.
ImageNodes ==
    {Node(b, <<"a", "n", "d", "r", "o", "i", "d", ".", "w", "i", "d", "g", "e", "t", ".", "I", "m", "a", "g", "e", "V", "i", "e", "w">>, <<>>, <<>>, "false", "false", "false", <<>>) :
        b \in {BoundsStr(0, 0, 50, 50), NoBoundsAttr, MalformedBounds}}
    \cup {Node(BoundsStr(0, 0, 50, 50), <<"a", "n", "d", "r", "o", "i", "d", ".", "w", "i", "d", "g", "e", "t", ".", "I", "m", "a", "g", "e", "V", "i", "e", "w">>, <<>>, <<"L", "o", "g", "o">>, "false", "false", "false", <<>>)}

\* Clickable texts with unclear wording, with and without bounds.
LinkNodes ==
    {Node(BoundsStr(0, 0, 44, 44), <<"a", "n", "d", "r", "o", "i", "d", ".", "w", "i", "d", "g", "e", "t", ".", "T", "e", "x", "t", "V", "i", "e", "w">>, t, <<>>, "true", "false", "false", <<>>) :
        t \in {<<"O", "K">>, <<"h", "e", "r", "e">>}}
    \cup {Node(NoBoundsAttr, <<"a", "n", "d", "r", "o", "i", "d", ".", "w", "i", "d", "g", "e", "t", ".", "T", "e", "x", "t", "V", "i", "e", "w">>, <<"O", "K">>, <<>>, "true", "false", "false", <<>>)}

\* Unlabelled controls: a button, an input field, a long-press-only text.
OtherNodes ==
    {Node(BoundsStr(0, 0, 48, 48), <<"a", "n", "d", "r", "o", "i", "d", ".", "w", "i", "d", "g", "e", "t", ".", "B", "u", "t", "t", "o", "n">>, <<>>, <<>>, "true", "true",
          "false", <<"i", "d", "/", "x">>),
     Node(BoundsStr(200, 200, 248, 248), <<"a", "n", "d", "r", "o", "i", "d", ".", "w", "i", "d", "g", "e", "t", ".", "E", "d", "i", "t", "T", "e", "x", "t">>, <<>>, <<>>, "false",
          "true", "false", <<>>),
     Node(BoundsStr(0, 0, 50, 50), <<"a", "n", "d", "r", "o", "i", "d", ".", "w", "i", "d", "g", "e", "t", ".", "T", "e", "x", "t", "V", "i", "e", "w">>, <<"S", "a", "v", "e">>, <<>>, "false",
          "false", "true", <<>>)}

Nodes == ButtonNodes \cup ImageNodes \cup LinkNodes \cup OtherNodes

\* ============================================================ analyze_accessibility
InitScan ==
    /\ rules_config \in Configs
    /\ screenshot_file \in Screenshots
    /\ tree \in SeqsUpTo(Nodes, MaxNodes)
    /\ pc = "collect"
    /\ scan_elements = <<>>
    /\ scan_issues = <<>>
    /\ scan_result = <<>>

\* First pass: collect all elements.
CollectElements ==
    /\ pc = "collect"
    /\ scan_elements' = collect_elements(tree)
    /\ pc' = "checks"
    /\ UNCHANGED <<rules_config, screenshot_file, tree, scan_issues, scan_result>>

\* Run all enabled rule checks.
RunRuleChecks ==
    /\ pc = "checks"
    /\ scan_issues' = run_rule_checks(scan_elements, screenshot_file)
    /\ pc' = "enrich"
    /\ UNCHANGED <<rules_config, screenshot_file, tree, scan_elements, scan_result>>

\* Add WCAG details to each issue.
AddWcagDetails ==
    /\ pc = "enrich"
    /\ scan_issues' = enrich(scan_issues)
    /\ pc' = "dedup"
    /\ UNCHANGED <<rules_config, screenshot_file, tree, scan_elements, scan_result>>

\* Deduplicate issues and return, or leave with the TypeError of the key.
Deduplicate ==
    /\ pc = "dedup"
    /\ LET outcome == deduplicate(scan_issues)
       IN  /\ pc' = IF outcome.raised THEN "raised" ELSE "returned"
           /\ scan_result' = outcome.unique
    /\ UNCHANGED <<rules_config, screenshot_file, tree, scan_elements, scan_issues>>

\* The whole of analyze_accessibility on a parsed UI dump: first pass, rule
\* checks, enrichment, deduplication; the list returned, or the TypeError.
\* Each stage is bound to its value before the next one reads it, as the
\* local variables all_elements and issues are in the code.
analyze_accessibility(nodes, screenshot) ==
    CHOOSE outcome \in
        {deduplicate(enriched) :
            enriched \in {enrich(issues) :
                issues \in {run_rule_checks(all_elements, screenshot) :
                    all_elements \in {collect_elements(nodes)}}}} : TRUE

\* ============================================================ the rule checks in any order
\* The loop of the rule checks with the evaluators taken in any order. An
\* evaluator that returns an empty list leaves no trace (if rule_issues:), so
\* the evaluators still to be run that matter are the enabled ones with
\* findings to give of which the issues hold none yet.
pending_checks(issues, all_elements, screenshot) ==
    {rule_id \in {rule_checks[k] : k \in DOMAIN rule_checks} :
        /\ IF rule_id \in DOMAIN rules THEN Get(rules[rule_id], "enabled", TRUE) ELSE TRUE
        /\ check_method(rule_id, all_elements, screenshot) # <<>>
        /\ \A k \in DOMAIN issues : issues[k].rule # rule_id}

\* The undescribed image with bounds and the clickable texts (two on the same
\* bounds, one without bounds); trees of one or two of them.
OrderNodes ==
    {node \in ImageNodes :
        node.bounds = BoundsStr(0, 0, 50, 50) /\ node.content_desc = <<>>}
    \cup LinkNodes

OrderTrees ==
    {<<node>> : node \in OrderNodes} \cup (OrderNodes \X OrderNodes)

InitOrder ==
    /\ rules_config \in Configs
    /\ screenshot_file = NoScreenshot
    /\ tree \in OrderTrees
    /\ pc = "collect"
    /\ scan_elements = <<>>
    /\ scan_issues = <<>>
    /\ scan_result = <<>>

\* rule_issues = check_method(...); if rule_issues: issues.extend(rule_issues),
\* for one of the evaluators still to be run.
RunCheckMethod ==
    /\ pc = "checks"
    /\ \E rule_id \in pending_checks(scan_issues, scan_elements, screenshot_file) :
          scan_issues' = scan_issues \o check_method(rule_id, scan_elements, screenshot_file)
    /\ UNCHANGED <<rules_config, screenshot_file, tree, scan_elements, scan_result, pc>>

\* The loop ends when every evaluator has been run.
EndRuleChecks ==
    /\ pc = "checks"
    /\ pending_checks(scan_issues, scan_elements, screenshot_file) = {}
    /\ pc' = "enrich"
    /\ UNCHANGED <<rules_config, screenshot_file, tree, scan_elements, scan_issues, scan_result>>

\* ============================================================ run_scan, repeated
\* What one run_scan left behind: nothing yet, an exception out of
\* analyze_accessibility, or the report_data of generate_report.
ScanNotRun ==
    [ran |-> FALSE, raised |-> FALSE, issues |-> <<>>,
     summary |-> EmptySummary, audit_score |-> -1]
ScanRaised ==
    [ran |-> TRUE, raised |-> TRUE, issues |-> <<>>,
     summary |-> EmptySummary, audit_score |-> -1]
ScanReported(report) ==
    [ran |-> TRUE, raised |-> FALSE, issues |-> report.issues,
     summary |-> report.summary, audit_score |-> report.audit_score]

\* issues = self.analyze_accessibility(xml_file, screenshot_file)
\* ... self.generate_report(issues, ...), on the captured tree and screenshot
run_scan(nodes, screenshot, coverage) ==
    LET generate(outcome) ==
            IF outcome.raised
            THEN [scan |-> ScanRaised, wcag_coverage |-> coverage]
            ELSE CHOOSE done \in
                    {[scan |-> ScanReported(report),
                      wcag_coverage |-> report.wcag_coverage] :
                        report \in {report_data(outcome.unique, coverage)}} : TRUE
    IN  CHOOSE done \in
            {generate(outcome) :
                outcome \in {analyze_accessibility(nodes, screenshot)}} : TRUE

\* The nodes of the trees scanned twice: the images, the clickable texts and
\* the unlabelled controls.
RepeatNodes == ImageNodes \cup LinkNodes \cup OtherNodes

\* One scanner, constructed with rules_config, scanning the same captured
\* state (tree, screenshot_file) twice.
InitRepeat ==
    /\ rules_config \in Configs
    /\ screenshot_file \in Screenshots
    /\ tree \in SeqsUpTo(RepeatNodes, MaxNodes)
    /\ pc = "idle"
    /\ scan_elements = <<>>
    /\ scan_issues = <<>>
    /\ scan_result = <<>>
    /\ wcag_coverage = load_wcag_coverage
    /\ scanFirst = ScanNotRun
    /\ scanSecond = ScanNotRun

RunScanFirst ==
    /\ ~scanFirst.ran
    /\ LET done == run_scan(tree, screenshot_file, wcag_coverage)
       IN  /\ scanFirst' = done.scan
           /\ wcag_coverage' = done.wcag_coverage
    /\ UNCHANGED scanSecond

RunScanSecond ==
    /\ scanFirst.ran /\ ~scanSecond.ran
    /\ LET done == run_scan(tree, screenshot_file, wcag_coverage)
       IN  /\ scanSecond' = done.scan
           /\ wcag_coverage' = done.wcag_coverage
    /\ UNCHANGED scanFirst

\* ============================================================ load_rules_config alone
\* Overrides a custom_rules dict can hold: partial entries for two known rules
\* and, for an id the defaults do not have, a complete and a partial entry.
OverrideIds == {"touch-target-size", "image-descriptions", "custom-rule"}

Overrides(rule_id) ==
    CASE rule_id = "touch-target-size" ->
            {[min_size |-> 48],
             [min_size |-> 48, priority |-> "low"],
             [enabled |-> FALSE]}
      [] rule_id = "image-descriptions" ->
            {[enabled |-> FALSE],
             [priority |-> "high", guideline |-> "Custom 1.1.1"]}
      [] OTHER ->
            {[enabled |-> TRUE,
              priority |-> "low",
              guideline |-> "Custom rule",
              wcag_description |-> "Custom description",
              why_it_matters |-> "Custom reason",
              how_to_fix |-> "Custom fix",
              success_criteria |-> "Level A"],
             [enabled |-> TRUE]}

CustomRules ==
    UNION {{custom_rules \in [ids -> UNION {Overrides(rule_id) : rule_id \in OverrideIds}] :
                \A rule_id \in ids : custom_rules[rule_id] \in Overrides(rule_id)} :
           ids \in SUBSET OverrideIds}

\* Every kind of rules_config: None, a dict, and a path to a file that is
\* missing, unreadable, no JSON, or a JSON object.
LoadConfigs ==
    {NoConfig}
    \cup {PathConfig(file, <<>>) : file \in {"missing", "unreadable", "invalid_json"}}
    \cup {DictConfig(custom_rules) : custom_rules \in CustomRules}
    \cup {PathConfig("json", custom_rules) : custom_rules \in CustomRules}

LoadNotRun ==
    [ran |-> FALSE, raised |-> FALSE, exception |-> "", rules |-> <<>>,
     default_rules |-> default_rules]
LoadRan(outcome) ==
    [ran |-> TRUE, raised |-> outcome.raised, exception |-> outcome.exception,
     rules |-> outcome.rules, default_rules |-> outcome.default_rules]

InitLoad ==
    /\ rules_config \in LoadConfigs
    /\ screenshot_file = NoScreenshot
    /\ tree = <<>> /\ pc = "idle"
    /\ scan_elements = <<>> /\ scan_issues = <<>> /\ scan_result = <<>>
    /\ loaded = LoadNotRun

\* self.rules = self.load_rules_config(rules_config)
LoadRulesConfig ==
    /\ ~loaded.ran
    /\ loaded' = LoadRan(load_rules_config(rules_config))

\* ============================================================ check_color_contrast alone
\* A call of a check method that has not been made, and one that returned.
CheckNotRun == [ran |-> FALSE, issues |-> <<>>]
CheckRan(issues) == [ran |-> TRUE, issues |-> issues]

\* The gray levels of a uniform screenshot: every value of an 8-bit channel.
GrayLevels == 0..255

\* Screenshots of every gray level, and the missing file.
ContrastScreenshots ==
    {NoScreenshot} \cup {[exists |-> TRUE, gray |-> gray] : gray \in GrayLevels}

\* Catalogs with the default threshold 4.5 and with thresholds 4.56 and 1.02
\* (in hundredths), each the rounded ratio of some gray level.
ContrastConfigs ==
    {NoConfig}
    \cup {DictConfig("color-contrast" :> [threshold |-> threshold]) :
            threshold \in {456, 102}}

\* Nodes of four classes, with and without text, with bounds that are usable,
\* missing, or of no width.
ContrastNodes ==
    {Node(b, class, text, <<>>, "false", "false", "false", <<>>) :
        b \in {BoundsStr(0, 0, 50, 50), NoBoundsAttr, BoundsStr(5, 5, 5, 9)},
        class \in {<<"a", "n", "d", "r", "o", "i", "d", ".", "w", "i", "d", "g", "e", "t", ".", "T", "e", "x", "t", "V", "i", "e", "w">>,
                   <<"a", "n", "d", "r", "o", "i", "d", ".", "w", "i", "d", "g", "e", "t", ".", "B", "u", "t", "t", "o", "n">>,
                   <<"a", "n", "d", "r", "o", "i", "d", ".", "w", "i", "d", "g", "e", "t", ".", "E", "d", "i", "t", "T", "e", "x", "t">>,
                   <<"a", "n", "d", "r", "o", "i", "d", ".", "w", "i", "d", "g", "e", "t", ".", "C", "h", "e", "c", "k", "B", "o", "x">>},
        text \in {<<>>, <<"O", "K">>}}

InitContrast ==
    /\ rules_config \in ContrastConfigs
    /\ screenshot_file \in ContrastScreenshots
    /\ tree = <<>> /\ pc = "idle"
    /\ scan_elements = <<>> /\ scan_issues = <<>> /\ scan_result = <<>>
    /\ \E node \in ContrastNodes : checked_elements = collect_elements(<<node>>)
    /\ check_issues = CheckNotRun

\* rule_issues = self.check_color_contrast(all_elements, ..., screenshot_file)
CheckColorContrast ==
    /\ ~check_issues.ran
    /\ check_issues' = CheckRan(check_color_contrast(checked_elements, screenshot_file))
    /\ UNCHANGED checked_elements

\* ---- check_color_contrast on a list of elements
\* Text views and text fields, with and without text, with bounds that are
\* usable, missing, or of no width.
CropNodes ==
    {node \in ContrastNodes :
        \/ contains(node.class, TextView)
        \/ contains(node.class, <<"E", "d", "i", "t", "T", "e", "x", "t">>)}

\* No screenshot file, a white one and a black one.
CropScreenshots ==
    {NoScreenshot, [exists |-> TRUE, gray |-> 255], [exists |-> TRUE, gray |-> 0]}

InitCrop ==
    /\ rules_config = NoConfig
    /\ screenshot_file \in CropScreenshots
    /\ tree = <<>> /\ pc = "idle"
    /\ scan_elements = <<>> /\ scan_issues = <<>> /\ scan_result = <<>>
    /\ \E nodes \in SeqsUpTo(CropNodes, MaxNodes) :
          /\ nodes # <<>>
          /\ checked_elements = collect_elements(nodes)
    /\ check_issues = CheckNotRun

\* ============================================================ check_focus_order alone
\* Focusable buttons with tops 0, 100, 101 and 250 at two lefts, and one
\* without bounds.
FocusNodes ==
    {Node(b, <<"a", "n", "d", "r", "o", "i", "d", ".", "w", "i", "d", "g", "e", "t", ".", "B", "u", "t", "t", "o", "n">>, <<"G", "o">>, <<>>, "true", "true", "false", <<>>) :
        b \in {BoundsStr(left, top, left + 50, top + 50) :
                    left \in {0, 60}, top \in {0, 100, 101, 250}}
               \cup {NoBoundsAttr}}

InitFocus ==
    /\ rules_config = NoConfig
    /\ screenshot_file = NoScreenshot
    /\ tree = <<>> /\ pc = "idle"
    /\ scan_elements = <<>> /\ scan_issues = <<>> /\ scan_result = <<>>
    /\ \E nodes \in SeqsUpTo(FocusNodes, MaxFocusable) :
          checked_elements = collect_elements(nodes)
    /\ check_issues = CheckNotRun

\* rule_issues = self.check_focus_order(..., focusable_elements, ...)
CheckFocusOrder ==
    /\ ~check_issues.ran
    /\ check_issues' = CheckRan(check_focus_order(focusable_of(checked_elements)))
    /\ UNCHANGED checked_elements

\* ============================================================ check_overlapping_elements alone
\* Clickable texts on a chain of rectangles, each overlapping the next one
\* only, one apart from all, one without bounds, and a text on the first
\* rectangle that is not clickable.
ClickableNodes ==
    {Node(b, <<"a", "n", "d", "r", "o", "i", "d", ".", "w", "i", "d", "g", "e", "t", ".", "T", "e", "x", "t", "V", "i", "e", "w">>, <<"O", "p", "e", "n">>, <<>>, "true", "false", "false", <<>>) :
        b \in {BoundsStr(0, 0, 44, 44), BoundsStr(40, 40, 90, 90),
               BoundsStr(80, 80, 120, 120), BoundsStr(200, 200, 248, 248),
               NoBoundsAttr}}
    \cup {Node(BoundsStr(0, 0, 44, 44), <<"a", "n", "d", "r", "o", "i", "d", ".", "w", "i", "d", "g", "e", "t", ".", "T", "e", "x", "t", "V", "i", "e", "w">>, <<"O", "p", "e", "n">>, <<>>, "false", "false", "false", <<>>)}

InitClickable ==
    /\ rules_config = NoConfig
    /\ screenshot_file = NoScreenshot
    /\ tree = <<>> /\ pc = "idle"
    /\ scan_elements = <<>> /\ scan_issues = <<>> /\ scan_result = <<>>
    /\ \E nodes \in SeqsUpTo(ClickableNodes, MaxClickable) :
          checked_elements = collect_elements(nodes)
    /\ check_issues = CheckNotRun

\* rule_issues = self.check_overlapping_elements(..., clickable_elements, ...)
CheckOverlappingElements ==
    /\ ~check_issues.ran
    /\ check_issues' = CheckRan(check_overlapping_elements(clickable_of(checked_elements)))
    /\ UNCHANGED checked_elements

\* ============================================================ check_label_in_name alone
\* Values of the text and content-desc attributes: empty, unrelated, one
\* inside the other, equal but for the case, padded with blanks.
LabelStrings ==
    {<<>>,
     <<"S", "u", "b", "m", "i", "t", " ", "O", "r", "d", "e", "r">>,
     <<"C", "a", "n", "c", "e", "l">>,
     <<"S", "u", "b", "m", "i", "t">>,
     <<"S", "U", "B", "M", "I", "T">>,
     <<"s", "u", "b", "m", "i", "t", " ", "o", "r", "d", "e", "r">>,
     <<" ", "O", "r", "d", "e", "r", " ">>,
     <<"o", "r", "d", "e", "r">>}

LabelNodes ==
    {Node(b, <<"a", "n", "d", "r", "o", "i", "d", ".", "w", "i", "d", "g", "e", "t", ".", "B", "u", "t", "t", "o", "n">>, text, content_desc, "true", "true", "false", <<>>) :
        b \in {BoundsStr(0, 0, 50, 50), NoBoundsAttr},
        text \in LabelStrings,
        content_desc \in LabelStrings}

InitLabel ==
    /\ rules_config = NoConfig
    /\ screenshot_file = NoScreenshot
    /\ tree = <<>> /\ pc = "idle"
    /\ scan_elements = <<>> /\ scan_issues = <<>> /\ scan_result = <<>>
    /\ \E node \in LabelNodes : checked_elements = collect_elements(<<node>>)
    /\ check_issues = CheckNotRun

\* rule_issues = self.check_label_in_name(all_elements, ...)
CheckLabelInName ==
    /\ ~check_issues.ran
    /\ check_issues' = CheckRan(check_label_in_name(checked_elements))
    /\ UNCHANGED checked_elements

\* ============================================================ deduplication alone
\* The deduplication loop applied to a drawn list of issues, then to its own
\* output.
DedupNotRun == [ran |-> FALSE, raised |-> FALSE, unique |-> <<>>]
DedupRan(outcome) ==
    [ran |-> TRUE, raised |-> outcome.raised, unique |-> outcome.unique]

DedupMessages ==
    {[template |-> "Link purpose may be unclear: '%'", args |-> <<<<"O", "K">>>>],
     [template |-> "Link purpose may be unclear: '%'", args |-> <<<<"h", "e", "r", "e">>>>]}

\* Issues as the loop reads them: a rule, a message, and bounds that are a
\* rectangle, None, or not there at all.
DedupIssues ==
    [rule : {"link-purpose", "missing-labels"},
     message : DedupMessages,
     bounds : {None, <<0, 0, 44, 44>>, <<44, 0, 88, 44>>}]
    \cup [rule : {"link-purpose", "missing-labels"}, message : DedupMessages]

InitDedup ==
    /\ dedupInput \in SeqsUpTo(DedupIssues, MaxIssues)
    /\ dedupOnce = DedupNotRun
    /\ dedupTwice = DedupNotRun

DedupOnce ==
    /\ ~dedupOnce.ran
    /\ dedupOnce' = DedupRan(deduplicate(dedupInput))
    /\ UNCHANGED <<dedupInput, dedupTwice>>

DedupTwice ==
    /\ dedupOnce.ran /\ ~dedupOnce.raised
    /\ ~dedupTwice.ran
    /\ dedupTwice' = DedupRan(deduplicate(dedupOnce.unique))
    /\ UNCHANGED <<dedupInput, dedupOnce>>

\* ============================================================ specifications
IdleScore ==
    /\ issuesA = <<>> /\ issuesB = <<>>
    /\ reportA = NoReport /\ reportB = NoReport

IdleOverlap ==
    /\ bounds1 = <<0, 0, 0, 0>> /\ bounds2 = <<0, 0, 0, 0>>
    /\ overlap12 = NotRun /\ overlap21 = NotRun

IdleScan ==
    /\ rules_config = NoConfig /\ screenshot_file = NoScreenshot
    /\ tree = <<>> /\ pc = "idle"
    /\ scan_elements = <<>> /\ scan_issues = <<>> /\ scan_result = <<>>

IdleDedup ==
    /\ dedupInput = <<>>
    /\ dedupOnce = DedupNotRun /\ dedupTwice = DedupNotRun

IdleRepeat ==
    /\ wcag_coverage = load_wcag_coverage
    /\ scanFirst = ScanNotRun /\ scanSecond = ScanNotRun

IdleLoad == loaded = [ran |-> FALSE]

IdleCheck == checked_elements = <<>> /\ check_issues = CheckNotRun

\* One scan: analyze_accessibility on a drawn tree, catalog and screenshot.
Next ==
    \/ CollectElements /\ UNCHANGED <<scoreVars, overlapVars, dedupVars, repeatVars, loadVars, checkVars>>
    \/ RunRuleChecks /\ UNCHANGED <<scoreVars, overlapVars, dedupVars, repeatVars, loadVars, checkVars>>
    \/ AddWcagDetails /\ UNCHANGED <<scoreVars, overlapVars, dedupVars, repeatVars, loadVars, checkVars>>
    \/ Deduplicate /\ UNCHANGED <<scoreVars, overlapVars, dedupVars, repeatVars, loadVars, checkVars>>

Init == InitScan /\ IdleScore /\ IdleOverlap /\ IdleDedup /\ IdleRepeat /\ IdleLoad /\ IdleCheck

Spec == Init /\ [][Next]_vars

\* generate_report applied to drawn finding lists.
NextScore ==
    \/ GenerateReportA /\ UNCHANGED <<overlapVars, scanVars, dedupVars, repeatVars, loadVars, checkVars>>
    \/ GenerateReportB /\ UNCHANGED <<overlapVars, scanVars, dedupVars, repeatVars, loadVars, checkVars>>

InitSpecScore == InitScore /\ IdleOverlap /\ IdleScan /\ IdleDedup /\ IdleRepeat /\ IdleLoad /\ IdleCheck

SpecScore == InitSpecScore /\ [][NextScore]_vars

\* elements_overlap applied to drawn rectangle pairs, in both argument orders.
NextOverlap ==
    \/ ElementsOverlap12 /\ UNCHANGED <<scoreVars, scanVars, dedupVars, repeatVars, loadVars, checkVars>>
    \/ ElementsOverlap21 /\ UNCHANGED <<scoreVars, scanVars, dedupVars, repeatVars, loadVars, checkVars>>

InitSpecOverlap == InitOverlap /\ IdleScore /\ IdleScan /\ IdleDedup /\ IdleRepeat /\ IdleLoad /\ IdleCheck

SpecOverlap == InitSpecOverlap /\ [][NextOverlap]_vars

\* The deduplication loop applied to drawn issue lists, once and twice.
NextDedup ==
    \/ DedupOnce /\ UNCHANGED <<scoreVars, overlapVars, scanVars, repeatVars, loadVars, checkVars>>
    \/ DedupTwice /\ UNCHANGED <<scoreVars, overlapVars, scanVars, repeatVars, loadVars, checkVars>>

InitSpecDedup == InitDedup /\ IdleScore /\ IdleOverlap /\ IdleScan /\ IdleRepeat /\ IdleLoad /\ IdleCheck

SpecDedup == InitSpecDedup /\ [][NextDedup]_vars

\* One scan with the evaluators run in any order.
NextOrder ==
    \/ CollectElements /\ UNCHANGED <<scoreVars, overlapVars, dedupVars, repeatVars, loadVars, checkVars>>
    \/ RunCheckMethod /\ UNCHANGED <<scoreVars, overlapVars, dedupVars, repeatVars, loadVars, checkVars>>
    \/ EndRuleChecks /\ UNCHANGED <<scoreVars, overlapVars, dedupVars, repeatVars, loadVars, checkVars>>
    \/ AddWcagDetails /\ UNCHANGED <<scoreVars, overlapVars, dedupVars, repeatVars, loadVars, checkVars>>
    \/ Deduplicate /\ UNCHANGED <<scoreVars, overlapVars, dedupVars, repeatVars, loadVars, checkVars>>

InitSpecOrder == InitOrder /\ IdleScore /\ IdleOverlap /\ IdleDedup /\ IdleRepeat /\ IdleLoad /\ IdleCheck

SpecOrder == InitSpecOrder /\ [][NextOrder]_vars

\* Two scans in a row by one scanner on one captured state.
NextRepeat ==
    \/ RunScanFirst /\ UNCHANGED <<scoreVars, overlapVars, scanVars, dedupVars, loadVars, checkVars>>
    \/ RunScanSecond /\ UNCHANGED <<scoreVars, overlapVars, scanVars, dedupVars, loadVars, checkVars>>

InitSpecRepeat == InitRepeat /\ IdleScore /\ IdleOverlap /\ IdleDedup /\ IdleLoad /\ IdleCheck

SpecRepeat == InitSpecRepeat /\ [][NextRepeat]_vars

\* The constructor's call of load_rules_config on a drawn rules_config.
NextLoad ==
    \/ LoadRulesConfig /\ UNCHANGED <<scoreVars, overlapVars, scanVars, dedupVars, repeatVars, checkVars>>

InitSpecLoad == InitLoad /\ IdleScore /\ IdleOverlap /\ IdleDedup /\ IdleRepeat /\ IdleCheck

SpecLoad == InitSpecLoad /\ [][NextLoad]_vars

\* check_color_contrast on one drawn element, screenshot and threshold.
NextContrast ==
    \/ CheckColorContrast /\ UNCHANGED <<scoreVars, overlapVars, scanVars, dedupVars, repeatVars, loadVars>>

InitSpecContrast == InitContrast /\ IdleScore /\ IdleOverlap /\ IdleDedup /\ IdleRepeat /\ IdleLoad

SpecContrast == InitSpecContrast /\ [][NextContrast]_vars

\* check_color_contrast on a drawn list of elements.
NextCrop ==
    \/ CheckColorContrast /\ UNCHANGED <<scoreVars, overlapVars, scanVars, dedupVars, repeatVars, loadVars>>

InitSpecCrop == InitCrop /\ IdleScore /\ IdleOverlap /\ IdleDedup /\ IdleRepeat /\ IdleLoad

SpecCrop == InitSpecCrop /\ [][NextCrop]_vars

\* check_focus_order on a drawn list of elements.
NextFocus ==
    \/ CheckFocusOrder /\ UNCHANGED <<scoreVars, overlapVars, scanVars, dedupVars, repeatVars, loadVars>>

InitSpecFocus == InitFocus /\ IdleScore /\ IdleOverlap /\ IdleDedup /\ IdleRepeat /\ IdleLoad

SpecFocus == InitSpecFocus /\ [][NextFocus]_vars

\* check_overlapping_elements on a drawn list of elements.
NextClickable ==
    \/ CheckOverlappingElements /\ UNCHANGED <<scoreVars, overlapVars, scanVars, dedupVars, repeatVars, loadVars>>

InitSpecClickable == InitClickable /\ IdleScore /\ IdleOverlap /\ IdleDedup /\ IdleRepeat /\ IdleLoad

SpecClickable == InitSpecClickable /\ [][NextClickable]_vars

\* check_label_in_name on one drawn element.
NextLabel ==
    \/ CheckLabelInName /\ UNCHANGED <<scoreVars, overlapVars, scanVars, dedupVars, repeatVars, loadVars>>

InitSpecLabel == InitLabel /\ IdleScore /\ IdleOverlap /\ IdleDedup /\ IdleRepeat /\ IdleLoad

SpecLabel == InitSpecLabel /\ [][NextLabel]_vars

\* generate_report applied to a list and to its replication.
NextReplicate ==
    \/ GenerateReportA /\ UNCHANGED <<overlapVars, scanVars, dedupVars, repeatVars, loadVars, checkVars>>
    \/ GenerateReportB /\ UNCHANGED <<overlapVars, scanVars, dedupVars, repeatVars, loadVars, checkVars>>

InitSpecReplicate == InitReplicate /\ IdleOverlap /\ IdleScan /\ IdleDedup /\ IdleRepeat /\ IdleLoad /\ IdleCheck

SpecReplicate == InitSpecReplicate /\ [][NextReplicate]_vars

\* ==================================================================== claims
\* ---- helpers of the claims about generate_report
Scored(r) == r # NoReport

\* Number of findings of priority p in a list, counted independently of the
\* summary loop.
CountOf(issues, p) == Cardinality({k \in DOMAIN issues : issues[k].priority = p})

\* Severity rank of a priority (critical > high > medium > low > anything else).
Rank(p) ==
    CASE p = "critical" -> 4
      [] p = "high" -> 3
      [] p = "medium" -> 2
      [] p = "low" -> 1
      [] OTHER -> 0

\* The findings added to A to make B.
Added == SubSeq(issuesB, Len(issuesA) + 1, Len(issuesB))

\* Every added finding is at least as severe as every finding of A.
AddedAtLeastAsSevere ==
    \A j \in DOMAIN Added : \A k \in DOMAIN issuesA :
        Rank(Added[j].priority) >= Rank(issuesA[k].priority)

\* C1: for any finding list (any mix of critical/high/medium/low/unknown
\* priorities) audit_score is an integer with 0 <= audit_score <= 100, and it
\* is 100 when the list is empty.
C1_ScoreBounds ==
    /\ Scored(reportA) =>
          /\ reportA.audit_score \in 0..100
          /\ (issuesA = <<>> => reportA.audit_score = 100)
    /\ Scored(reportB) => reportB.audit_score \in 0..100

\* C1 witness: the empty list has been scored 100 and a longer list, with an
\* unknown priority in it, has been scored below 100.
C1_Witness ==
    /\ Scored(reportA) /\ issuesA = <<>> /\ reportA.audit_score = 100
    /\ Scored(reportB) /\ reportB.audit_score < 100

\* C2 (as claimed): when B is A plus one or more findings of priority medium,
\* high or critical, the audit_score of B is at most the audit_score of A.
C2_Monotone_Original ==
    (Scored(reportA) /\ Scored(reportB)) =>
        reportB.audit_score <= reportA.audit_score

\* C2 (amended): when B is A plus one or more findings of priority medium,
\* high or critical, each at least as severe as every finding of A, the
\* audit_score of B is at most the audit_score of A.
C2_Monotone_Amended ==
    (Scored(reportA) /\ Scored(reportB) /\ AddedAtLeastAsSevere) =>
        reportB.audit_score <= reportA.audit_score

\* C2 witness: a non-empty A and a B made by adding findings at least as
\* severe as all of A's have both been scored, and B scores strictly lower.
C2_Witness ==
    /\ Scored(reportA) /\ Scored(reportB)
    /\ issuesA # <<>>
    /\ AddedAtLeastAsSevere
    /\ reportB.audit_score < reportA.audit_score

\* C3: for a non-empty list with c critical, h high, m medium, l low findings
\* and total findings in all,
\* audit_score = max(0, 100 - floor(((3c + 2h + m + 0.5l) / total) * 20)).
C3_ScoreFormula ==
    (Scored(reportA) /\ issuesA # <<>>) =>
        LET c == CountOf(issuesA, "critical")
            h == CountOf(issuesA, "high")
            m == CountOf(issuesA, "medium")
            l == CountOf(issuesA, "low")
            total == Len(issuesA)
        IN  reportA.audit_score =
                Max(0, 100 - ((60 * c + 40 * h + 20 * m + 10 * l) \div total))

\* C3 witness: a scored list holding a critical, a low and an unknown-priority
\* finding (weighted sum 3.5 over 3 findings: 100 - floor(23.33) = 77).
C3_Witness ==
    /\ Scored(reportA)
    /\ Len(issuesA) = 3
    /\ CountOf(issuesA, "critical") = 1
    /\ CountOf(issuesA, "low") = 1
    /\ CountOf(issuesA, "info") = 1
    /\ reportA.audit_score = 77

\* ---- claims about elements_overlap
\* Two rectangles of positive area that share part of an edge and nothing
\* more: the right edge of one is the left edge of the other, or the bottom
\* of one is the top of the other.
TouchingEdge(b1, b2) ==
    /\ b1[1] < b1[3] /\ b1[2] < b1[4]
    /\ b2[1] < b2[3] /\ b2[2] < b2[4]
    /\ \/ (b1[3] = b2[1] \/ b2[3] = b1[1]) /\ b1[2] < b2[4] /\ b2[2] < b1[4]
       \/ (b1[4] = b2[2] \/ b2[4] = b1[2]) /\ b1[1] < b2[3] /\ b2[1] < b1[3]

\* C8: elements_overlap is symmetric: elements_overlap(r1, r2) equals
\* elements_overlap(r2, r1) for every pair of normalized rectangles.
C8_OverlapSymmetric ==
    (overlap12.ran /\ overlap21.ran) => overlap12.result = overlap21.result

\* C8 witness: both argument orders have been evaluated on two different
\* rectangles that share only an edge, and both calls returned the same.
C8_Witness ==
    /\ overlap12.ran /\ overlap21.ran
    /\ bounds1 # bounds2
    /\ bounds1[3] = bounds2[1]
    /\ bounds1[1] < bounds1[3] /\ bounds2[1] < bounds2[3]
    /\ overlap12.result = overlap21.result

\* C7 (as claimed): two rectangles that only touch along an edge are not
\* reported as overlapping by elements_overlap.
C7_TouchingNotOverlapping ==
    (overlap12.ran /\ TouchingEdge(bounds1, bounds2)) => ~overlap12.result

\* ---- claims about analyze_accessibility
ChecksDone == pc \in {"enrich", "dedup", "returned", "raised"}
DedupDone == pc \in {"returned", "raised"}

\* Issue k of the issues list has null bounds.
NullBounds(k) == scan_issues[k].bounds = None

\* The first issue of the list with the rule of issue k and null bounds.
FirstNull(k) ==
    CHOOSE j \in DOMAIN scan_issues :
        /\ NullBounds(j) /\ scan_issues[j].rule = scan_issues[k].rule
        /\ \A i \in 1..(j - 1) :
              ~(NullBounds(i) /\ scan_issues[i].rule = scan_issues[k].rule)

SeveralNullBounds ==
    \E j, k \in DOMAIN scan_issues :
        j < k /\ NullBounds(j) /\ NullBounds(k)
              /\ scan_issues[j].rule = scan_issues[k].rule

\* C4: in the list returned by analyze_accessibility no two findings have the
\* same (bounds, rule) pair, whatever their messages.
C4_UniqueKeys ==
    pc = "returned" =>
        \A j, k \in DOMAIN scan_result :
            j < k => ~(/\ scan_result[j].bounds = scan_result[k].bounds
                       /\ scan_result[j].rule = scan_result[k].rule)

\* C4 witness: the scan returned, and the issues held two findings of one rule
\* on the same bounds with different messages.
C4_Witness ==
    /\ pc = "returned"
    /\ \E j, k \in DOMAIN scan_issues :
          /\ j < k
          /\ scan_issues[j].bounds = scan_issues[k].bounds
          /\ scan_issues[j].rule = scan_issues[k].rule
          /\ scan_issues[j].message # scan_issues[k].message
    /\ Len(scan_result) < Len(scan_issues)

\* C5 (as claimed): when the enriched findings hold several findings of one
\* rule with null bounds, the deduplication pass completes normally, keeping
\* the first of them and dropping the later ones.
C5_NullBoundsDeduplicated ==
    (DedupDone /\ SeveralNullBounds) =>
        /\ pc = "returned"
        /\ \A k \in DOMAIN scan_issues :
              NullBounds(k) =>
                 {m \in DOMAIN scan_result :
                     /\ scan_result[m].bounds = None
                     /\ scan_result[m].rule = scan_issues[k].rule}
                 = {m \in DOMAIN scan_result :
                       scan_result[m] = scan_issues[FirstNull(k)]}

\* A node of the tree whose bounds attribute is missing or malformed.
SomeNodeWithoutBounds ==
    \E k \in DOMAIN scan_elements : scan_elements[k].bounds = None

\* C6 (as claimed): for a tree in which some nodes have a missing or
\* malformed bounds string analyze_accessibility does not raise: it returns a
\* findings list.
C6_NeverRaises ==
    (DedupDone /\ SomeNodeWithoutBounds) => pc = "returned"

TargetRules == {"touch-target-size", "enhanced-target-size", "mobile-touch-target"}

\* Some issue of rule rule_id carries the bounds b.
Flagged(rule_id, b) ==
    \E k \in DOMAIN scan_issues :
        scan_issues[k].rule = rule_id /\ scan_issues[k].bounds = b

\* C9: for each target-size rule with configured minimum m, a clickable
\* element with bounds is flagged by that rule if and only if its width < m
\* or its height < m.
C9_TargetSizeBoundary ==
    ChecksDone =>
        \A rule_id \in TargetRules :
            Get(rules[rule_id], "enabled", TRUE) =>
                \A k \in DOMAIN scan_elements :
                    LET e == scan_elements[k]
                        m == Get(rules[rule_id], "min_size", 44)
                    IN  (e.clickable /\ e.bounds # None) =>
                            (Flagged(rule_id, e.bounds)
                                <=> (e.bounds[3] - e.bounds[1] < m
                                     \/ e.bounds[4] - e.bounds[2] < m))

\* C9 witness: under the default catalog (minimum 44) the rule checks have run
\* on a clickable 44 x 44 element, which touch-target-size did not flag, and a
\* clickable 43 x 44 element, which it flagged.
C9_Witness ==
    /\ ChecksDone
    /\ rules_config = NoConfig
    /\ \E j, k \in DOMAIN scan_elements :
          /\ scan_elements[j].clickable /\ scan_elements[j].bounds = <<0, 0, 44, 44>>
          /\ scan_elements[k].clickable /\ scan_elements[k].bounds = <<0, 0, 43, 44>>
    /\ ~Flagged("touch-target-size", <<0, 0, 44, 44>>)
    /\ Flagged("touch-target-size", <<0, 0, 43, 44>>)

\* ---- claims about the deduplication loop alone
\* C10: running the deduplication pass on its own output changes nothing:
\* it returns the same findings in the same order.
C10_DedupIdempotent ==
    dedupTwice.ran =>
        /\ ~dedupTwice.raised
        /\ dedupTwice.unique = dedupOnce.unique

\* C10 witness: the pass dropped a duplicate from a three-issue list, kept two
\* issues, and was run again on those two.
C10_Witness ==
    /\ dedupTwice.ran
    /\ Len(dedupInput) = 3
    /\ Len(dedupOnce.unique) = 2

\* ---- helpers of the claims about the order of the deduplicated list
\* s is a subsequence of t: the items of s appear in t in the same relative
\* order.
RECURSIVE IsSubsequence(_, _)
IsSubsequence(s, t) ==
    IF s = <<>> THEN TRUE
    ELSE IF t = <<>> THEN FALSE
    ELSE IF Head(s) = Head(t) THEN IsSubsequence(Tail(s), Tail(t))
    ELSE IsSubsequence(s, Tail(t))

\* The (bounds, rule) key of a finding, bounds absent read as the empty tuple.
KeyOf(i) == <<IF "bounds" \in DOMAIN i THEN i.bounds ELSE <<>>, i.rule>>

\* The first finding of a list that carries the key.
FirstWithKey(issues, key) ==
    issues[CHOOSE k \in DOMAIN issues :
              /\ KeyOf(issues[k]) = key
              /\ \A j \in 1..(k - 1) : KeyOf(issues[j]) # key]

\* C11: the list the deduplication pass returns is a subsequence of its input,
\* and every key of the input is kept exactly as its first input finding:
\* each returned finding is the first input finding of its key, and each key of
\* the input is the key of a returned finding.
C11_StableFirstSeen ==
    (dedupOnce.ran /\ ~dedupOnce.raised) =>
        /\ IsSubsequence(dedupOnce.unique, dedupInput)
        /\ \A m \in DOMAIN dedupOnce.unique :
              dedupOnce.unique[m] = FirstWithKey(dedupInput, KeyOf(dedupOnce.unique[m]))
        /\ \A k \in DOMAIN dedupInput :
              \E m \in DOMAIN dedupOnce.unique :
                  KeyOf(dedupOnce.unique[m]) = KeyOf(dedupInput[k])

\* Three findings, the first and the last of one key with different messages,
\* the middle one of another key: the pass returns the first two in order.
C11_Witness ==
    /\ dedupOnce.ran /\ ~dedupOnce.raised
    /\ Len(dedupInput) = 3
    /\ KeyOf(dedupInput[1]) = KeyOf(dedupInput[3])
    /\ KeyOf(dedupInput[1]) # KeyOf(dedupInput[2])
    /\ dedupInput[1] # dedupInput[3]
    /\ dedupOnce.unique = <<dedupInput[1], dedupInput[2]>>

Disabled(rule_id) ==
    /\ rule_id \in DOMAIN rules
    /\ "enabled" \in DOMAIN rules[rule_id]
    /\ rules[rule_id].enabled = FALSE

\* Some element of the first pass is an image without description or text,
\* which check_image_descriptions reports when it runs.
SomeUndescribedImage ==
    \E k \in DOMAIN scan_elements :
        /\ contains(scan_elements[k].class, ImageView)
        /\ scan_elements[k].content_desc = <<>>

\* C13: no finding of the raw issues list, and so none of the list that
\* analyze_accessibility returns, belongs to a rule that the merged catalog
\* has with enabled = false.
C13_DisabledRulesSilent ==
    /\ ChecksDone => \A k \in DOMAIN scan_issues : ~Disabled(scan_issues[k].rule)
    /\ pc = "returned" => \A k \in DOMAIN scan_result : ~Disabled(scan_result[k].rule)

\* image-descriptions is switched off, the tree holds an image without a
\* description, and the scan returned findings of other rules for it.
C13_Witness ==
    /\ pc = "returned"
    /\ Disabled("image-descriptions")
    /\ SomeUndescribedImage
    /\ \E k \in DOMAIN scan_result : scan_result[k].rule = "text-alternatives"

\* The six catalog fields a finding carries equal those of the merged catalog
\* entry of its rule.
CarriesCatalogEntry(i) ==
    LET entry == rules[i.rule]
    IN  /\ {"priority", "guideline", "wcag_description", "why_it_matters",
            "how_to_fix", "success_criteria"} \subseteq DOMAIN i
        /\ i.priority = entry.priority
        /\ i.guideline = entry.guideline
        /\ i.wcag_description = entry.wcag_description
        /\ i.why_it_matters = entry.why_it_matters
        /\ i.how_to_fix = entry.how_to_fix
        /\ i.success_criteria = entry.success_criteria

\* C14: every finding of the list analyze_accessibility returns whose rule is
\* in the catalog carries the priority, guideline, wcag_description,
\* why_it_matters, how_to_fix and success_criteria of the merged catalog entry
\* of its rule, overridden values included.
C14_EnrichedFromCatalog ==
    pc = "returned" =>
        \A k \in DOMAIN scan_result :
            scan_result[k].rule \in DOMAIN rules => CarriesCatalogEntry(scan_result[k])

\* The scan returned, under the overrides, a text-alternatives finding with
\* the overridden priority, guideline and how_to_fix, and a target-size
\* finding of a rule whose override leaves those fields to the defaults.
C14_Witness ==
    /\ pc = "returned"
    /\ rules_config # NoConfig
    /\ \E k \in DOMAIN scan_result :
          /\ scan_result[k].rule = "text-alternatives"
          /\ scan_result[k].priority = "medium"
          /\ scan_result[k].guideline = "Custom 1.1.1"
          /\ scan_result[k].how_to_fix = "Describe the image"
          /\ scan_result[k].guideline # default_rules["text-alternatives"].guideline
    /\ \E k \in DOMAIN scan_result :
          /\ scan_result[k].rule = "touch-target-size"
          /\ scan_result[k].priority = default_rules["touch-target-size"].priority
          /\ scan_result[k].how_to_fix = default_rules["touch-target-size"].how_to_fix

\* ---- claims about load_rules_config alone
\* The call merged a custom_rules dict (handed over, or parsed from a file).
Merged ==
    /\ loaded.ran /\ ~loaded.raised
    /\ \/ rules_config.kind = "dict"
       \/ rules_config.kind = "str" /\ rules_config.file = "json"

\* C15: after a merge, an override of a rule the defaults have gives an entry
\* with the override's value for each supplied field and the default value
\* for every other field; an override of an id the defaults do not have is
\* in the merged catalog verbatim; every default rule no override names is
\* there unchanged; the merged catalog has no other entry.
C15_CatalogMerge ==
    Merged =>
        LET custom_rules == rules_config.custom_rules
            merged == loaded.rules
        IN  /\ DOMAIN merged = DOMAIN default_rules \cup DOMAIN custom_rules
            /\ \A rule_id \in DOMAIN custom_rules :
                  IF rule_id \in DOMAIN default_rules
                  THEN /\ DOMAIN merged[rule_id] =
                            DOMAIN default_rules[rule_id] \cup DOMAIN custom_rules[rule_id]
                       /\ \A field \in DOMAIN custom_rules[rule_id] :
                             merged[rule_id][field] = custom_rules[rule_id][field]
                       /\ \A field \in DOMAIN default_rules[rule_id]
                                        \ DOMAIN custom_rules[rule_id] :
                             merged[rule_id][field] = default_rules[rule_id][field]
                  ELSE merged[rule_id] = custom_rules[rule_id]
            /\ \A rule_id \in DOMAIN default_rules \ DOMAIN custom_rules :
                  merged[rule_id] = default_rules[rule_id]

\* A file was parsed and merged that overrides two fields of touch-target-size
\* and brings a rule the defaults do not have.
C15_Witness ==
    /\ Merged
    /\ rules_config.kind = "str"
    /\ DOMAIN rules_config.custom_rules = {"touch-target-size", "custom-rule"}
    /\ rules_config.custom_rules["touch-target-size"] = [min_size |-> 48, priority |-> "low"]
    /\ loaded.rules["touch-target-size"].min_size = 48
    /\ loaded.rules["touch-target-size"].priority = "low"
    /\ loaded.rules["touch-target-size"].guideline = "WCAG 2.5.5 - Target Size (Enhanced)"
    /\ loaded.rules["custom-rule"] = [enabled |-> TRUE]
    /\ loaded.rules["text-alternatives"] = default_rules["text-alternatives"]

\* The override source is a path whose file cannot be read or parsed.
SourceUnusable ==
    /\ rules_config.kind = "str"
    /\ rules_config.file \in {"missing", "unreadable", "invalid_json"}

\* C16 (as claimed): when the override source is a missing file, an unreadable
\* file or a file of invalid JSON, load_rules_config does not raise and
\* returns the default rule definitions.
C16_FallsBackToDefaults ==
    (loaded.ran /\ SourceUnusable) =>
        /\ ~loaded.raised
        /\ loaded.rules = default_rules

\* ---- claims about the element records of the first pass
Collected == pc \in {"checks", "enrich", "dedup", "returned", "raised"}

\* The attribute the identity path of a node is to be built from.
IdentityAttribute(node) ==
    IF node.resource_id # <<>> THEN "resource-id"
    ELSE IF node.content_desc # <<>> THEN "content-desc"
    ELSE IF node.text # <<>> THEN "text"
    ELSE "path"

\* The value the identity path of the k-th node is to carry.
IdentityValue(node) ==
    IF node.resource_id # <<>> THEN node.resource_id
    ELSE IF node.content_desc # <<>> THEN node.content_desc
    ELSE node.text

\* C17 (as claimed): for every node of the tree the xpath of its element
\* record is built from resource-id if non-empty, else content-desc, else
\* text, else the structural path, and is not the empty string when the node
\* has one of the three attributes.
C17_IdentityPathPrecedence ==
    Collected =>
        \A k \in DOMAIN tree :
            LET node == tree[k]
                xpath == scan_elements[k].xpath
            IN  /\ xpath.by = IdentityAttribute(node)
                /\ IdentityAttribute(node) # "path" =>
                      /\ xpath # NoXPath
                      /\ xpath.value = IdentityValue(node)

\* ---- claims about check_color_contrast alone
\* The one element handed to the check.
CheckedElement == checked_elements[1]

\* The element has bounds that parsed and enclose at least one pixel.
UsableBounds(e) ==
    /\ e.bounds # None
    /\ e.bounds[1] < e.bounds[3] /\ e.bounds[2] < e.bounds[4]

\* The threshold of the merged catalog, in hundredths.
ContrastThreshold == rules["color-contrast"].threshold

\* For a crop of mean luminance L = gray/255, (L + 0.05)/1.05 is
\* (4*gray + 51)/1071. The ratio max((L+0.05)/1.05, 1.05/(L+0.05)) is below
\* threshold/100 exactly when both of its candidates are.
RatioBelow(gray, threshold) ==
    /\ (4 * gray + 51) * 100 < threshold * 1071
    /\ 1071 * 100 < threshold * (4 * gray + 51)

CheckFlagged == check_issues.issues # <<>>

\* C18 (as claimed): with a screenshot to crop, the check flags an element with
\* usable bounds and non-empty text if and only if the contrast ratio
\* max((L+0.05)/1.05, 1.05/(L+0.05)) of its crop is below the configured
\* threshold.
C18_ContrastRule ==
    (check_issues.ran /\ screenshot_file.exists
        /\ UsableBounds(CheckedElement) /\ CheckedElement.text # <<>>) =>
            (CheckFlagged <=> RatioBelow(screenshot_file.gray, ContrastThreshold))

\* ---- claims about check_label_in_name alone
\* a is a substring of b when the case of the letters is not minded.
CaseInsensitiveSubstring(a, b) ==
    \E k \in 0..(Len(b) - Len(a)) :
        \A j \in 1..Len(a) : lower_char(a[j]) = lower_char(b[k + j])

\* C19: the label-in-name check produces a finding for an element if and only
\* if its text and its content description are both non-empty and neither is
\* a case-insensitive substring of the other; it produces one finding then,
\* of rule label-in-name, with the bounds of the element.
C19_LabelInName ==
    check_issues.ran =>
        LET text == CheckedElement.text
            content_desc == CheckedElement.content_desc
        IN  /\ check_issues.issues # <<>> <=>
                  /\ text # <<>> /\ content_desc # <<>>
                  /\ ~CaseInsensitiveSubstring(text, content_desc)
                  /\ ~CaseInsensitiveSubstring(content_desc, text)
            /\ check_issues.issues # <<>> =>
                  /\ Len(check_issues.issues) = 1
                  /\ check_issues.issues[1].rule = "label-in-name"
                  /\ check_issues.issues[1].bounds = CheckedElement.bounds

\* Text 'Submit Order' with description 'Cancel' gave one finding.
C19_Witness ==
    /\ check_issues.ran
    /\ CheckedElement.text = <<"S", "u", "b", "m", "i", "t", " ", "O", "r", "d", "e", "r">>
    /\ CheckedElement.content_desc = <<"C", "a", "n", "c", "e", "l">>
    /\ Len(check_issues.issues) = 1

\* ---- claims about the image findings of a scan
ScenarioBounds == <<0, 0, 50, 50>>

\* The tree holds an image-class element with empty text, empty description
\* and bounds (0,0,50,50).
HasScenarioImage ==
    \E k \in DOMAIN scan_elements :
        /\ contains(scan_elements[k].class, ImageView)
        /\ scan_elements[k].text = <<>>
        /\ scan_elements[k].content_desc = <<>>
        /\ scan_elements[k].bounds = ScenarioBounds

\* Number of findings of the rule on the bounds in a list.
FindingsOn(list, rule_id, b) ==
    Cardinality({k \in DOMAIN list : list[k].rule = rule_id /\ list[k].bounds = b})

\* Each of the two image rules that is enabled has exactly one finding on the
\* scenario bounds in the returned list.
OneFindingPerImageRule ==
    \A rule_id \in {"text-alternatives", "image-descriptions"} :
        ~Disabled(rule_id) => FindingsOn(scan_result, rule_id, ScenarioBounds) = 1

\* C20 (as claimed): a scan of a tree that holds such an image ends with a
\* report, in which text-alternatives and image-descriptions (when enabled)
\* each have exactly one finding on those bounds, however many images share
\* them.
C20_OneFindingPerImage ==
    (DedupDone /\ HasScenarioImage) =>
        /\ pc = "returned"
        /\ OneFindingPerImageRule

\* ---- further claims about generate_report
\* C21: the summary has, for each of critical, high, medium and low, exactly
\* the number of findings of that priority and no other bucket; a finding of
\* any other priority is counted nowhere, so the counts sum to at most the
\* number of findings and to less when such a finding is in the list.
C21_SeveritySummary ==
    Scored(reportA) =>
        LET summary == reportA.summary
            sum == summary.critical + summary.high + summary.medium + summary.low
        IN  /\ DOMAIN summary = {"critical", "high", "medium", "low"}
            /\ \A p \in DOMAIN summary : summary[p] = CountOf(issuesA, p)
            /\ sum <= Len(issuesA)
            /\ sum = Len(issuesA) - CountOf(issuesA, "info")

\* A scored list of three findings, one of them of an unknown priority: the
\* buckets hold the other two.
C21_Witness ==
    /\ Scored(reportA)
    /\ Len(issuesA) = 3
    /\ CountOf(issuesA, "info") = 1
    /\ reportA.summary.high = 1 /\ reportA.summary.low = 1
    /\ reportA.summary.critical = 0 /\ reportA.summary.medium = 0

\* C28: every non-empty finding list scores at least 40 (so the clamp at 0
\* never decides), and a list of critical findings only scores exactly 40.
C28_ScoreAtLeast40 ==
    /\ (Scored(reportA) /\ issuesA # <<>>) =>
          /\ reportA.audit_score >= 40
          /\ CountOf(issuesA, "critical") = Len(issuesA) => reportA.audit_score = 40
    /\ Scored(reportB) =>
          /\ reportB.audit_score >= 40
          /\ CountOf(issuesB, "critical") = Len(issuesB) => reportB.audit_score = 40

\* A list of critical findings only, of the greatest length, scored 40.
C28_Witness ==
    /\ Scored(reportB)
    /\ Len(issuesB) = MaxFindings + MaxExtra
    /\ CountOf(issuesB, "critical") = Len(issuesB)
    /\ reportB.audit_score = 40

\* C29: a non-empty list and the list with every finding repeated k >= 1 times
\* have the same audit_score.
C29_ScoreOfProportions ==
    (Scored(reportA) /\ Scored(reportB)) => reportB.audit_score = reportA.audit_score

\* A list of mixed priorities scoring strictly between 40 and 100 and its
\* threefold replication have both been scored.
C29_Witness ==
    /\ Scored(reportA) /\ Scored(reportB)
    /\ Len(issuesA) >= 2
    /\ Len(issuesB) = 3 * Len(issuesA)
    /\ CountOf(issuesA, "low") >= 1 /\ CountOf(issuesA, "critical") >= 1
    /\ reportA.audit_score > 40 /\ reportA.audit_score < 100

\* ---- claims about check_color_contrast on several elements
\* The screenshot gives no crop for the element: there is no file, or the
\* element has no bounds or bounds enclosing no pixel.
Unusable(e) == ~screenshot_file.exists \/ ~UsableBounds(e)

\* The elements the contrast rule is to flag: measurable ones with text, of a
\* class the rule looks at, on a crop whose ratio is below the threshold.
LowContrast ==
    SelectSeq(checked_elements, LAMBDA e :
        /\ ~Unusable(e) /\ e.text # <<>>
        /\ (contains(e.class, TextView) \/ contains(e.class, Button))
        /\ RatioBelow(screenshot_file.gray, ContrastThreshold))

\* C22: the call returns; an element for which the screenshot is unusable
\* (no file, no bounds, or bounds of no area) gets no color-contrast finding,
\* and the other elements are evaluated all the same: the findings are those
\* of the measurable low-contrast elements, one each, in element order.
C22_UnusableScreenshot ==
    check_issues.ran =>
        /\ \A k \in DOMAIN checked_elements :
              Unusable(checked_elements[k]) =>
                  \A n \in DOMAIN check_issues.issues :
                      check_issues.issues[n].bounds # checked_elements[k].bounds
        /\ Len(check_issues.issues) = Len(LowContrast)
        /\ \A n \in DOMAIN check_issues.issues :
              /\ check_issues.issues[n].rule = "color-contrast"
              /\ check_issues.issues[n].bounds = LowContrast[n].bounds

\* A text view with bounds of no width, before one with usable bounds on a
\* white screenshot: the call returned the finding of the second only.
C22_Witness ==
    /\ check_issues.ran
    /\ Len(checked_elements) = 2
    /\ checked_elements[1].text # <<>> /\ contains(checked_elements[1].class, TextView)
    /\ checked_elements[1].bounds # None /\ ~UsableBounds(checked_elements[1])
    /\ Len(check_issues.issues) = 1
    /\ check_issues.issues[1].bounds = checked_elements[2].bounds

\* ---- claims about the first pass of analyze_accessibility
\* The bounds attribute of the node is there and is not four integers.
Malformed(node) ==
    /\ node.bounds.present
    /\ ~(Len(node.bounds.parts) = 4 /\ \A k \in 1..4 : node.bounds.parts[k].is_int)

\* Absent bounds, or a 4-tuple with x1 <= x2 and y1 <= y2.
WellFormedBounds(bounds) ==
    \/ bounds = None
    \/ /\ Len(bounds) = 4
       /\ bounds[1] <= bounds[3] /\ bounds[2] <= bounds[4]

\* C23: the first pass ends with one element record per node, in node order;
\* the bounds of every record are absent or a 4-tuple (x1,y1,x2,y2) with
\* x1 <= x2 and y1 <= y2; the record of a node with malformed bounds is in the
\* collection with absent bounds, and the records of the nodes after it too.
C23_ElementBounds ==
    Collected =>
        /\ Len(scan_elements) = Len(tree)
        /\ \A k \in DOMAIN tree :
              /\ WellFormedBounds(scan_elements[k].bounds)
              /\ scan_elements[k].class = tree[k].class
              /\ scan_elements[k].resource_id = tree[k].resource_id
              /\ Malformed(tree[k]) => scan_elements[k].bounds = None
              /\ (~Malformed(tree[k]) /\ tree[k].bounds.present) =>
                    scan_elements[k].bounds # None

\* A node with malformed bounds followed by one whose corners are written
\* right-bottom first: both are collected, the first without bounds, the second
\* with its corners put in order.
C23_Witness ==
    /\ Collected
    /\ Len(tree) = 2
    /\ Malformed(tree[1]) /\ scan_elements[1].bounds = None
    /\ tree[2].bounds = BoundsStr(44, 44, 0, 0)
    /\ scan_elements[2].bounds = <<0, 0, 44, 44>>

\* ---- claims about the default rule definitions
\* C24 (as claimed): after load_rules_config has merged overrides, every entry
\* of default_rules has exactly the field values it had before the call.
C24_DefaultsUnmodified ==
    Merged => loaded.default_rules = default_rules

\* ---- claims about the order of the findings
\* The place of a rule in the declared run order.
RunOrder(rule_id) == CHOOSE k \in DOMAIN rule_checks : rule_checks[k] = rule_id

\* The findings of one rule, in list order.
FindingsOf(issues, rule_id) == SelectSeq(issues, LAMBDA i : i.rule = rule_id)

\* The findings of the list follow the declared run order of their rules.
InRunOrder(issues) ==
    \A j, k \in DOMAIN issues :
        j < k => RunOrder(issues[j].rule) <= RunOrder(issues[k].rule)

\* C25: the returned findings are ordered by the declared run order of their
\* rules, the findings of one rule are in the order its evaluator emitted
\* them, and the list the deduplication reads, on which first-seen is
\* decided, is in that order too: each returned finding is the first of its
\* key in it.
C25_RunOrder ==
    /\ ChecksDone => InRunOrder(scan_issues)
    /\ pc = "returned" =>
          /\ InRunOrder(scan_result)
          /\ \A r \in DOMAIN rule_checks :
                IsSubsequence(FindingsOf(scan_result, rule_checks[r]),
                    enrich(check_method(rule_checks[r], scan_elements, screenshot_file)))
          /\ \A m \in DOMAIN scan_result :
                scan_result[m] = FirstWithKey(scan_issues, KeyOf(scan_result[m]))

\* A returned list with findings of three rules or more, two of them of one
\* rule with another rule's finding after them.
C25_Witness ==
    /\ pc = "returned"
    /\ Cardinality({scan_result[k].rule : k \in DOMAIN scan_result}) >= 3
    /\ \E j, k, m \in DOMAIN scan_result :
          /\ j < k /\ k < m
          /\ scan_result[j].rule = scan_result[k].rule
          /\ scan_result[k].rule # scan_result[m].rule

\* ---- claims about the order the evaluators are run in
\* The findings of a list, as a set.
FindingSet(issues) == {issues[k] : k \in DOMAIN issues}

\* The scan of the same tree with the evaluators in the declared order.
DeclaredOrderScan == analyze_accessibility(tree, screenshot_file)

\* C26: findings of different rules never have the same deduplication key,
\* and in whatever order the enabled evaluators were run and their outputs
\* appended, the scan ends as the scan in the declared order does, with the
\* same set of findings kept (and as many of them).
C26_OrderIndependent ==
    /\ \A j, k \in DOMAIN scan_issues :
          scan_issues[j].rule # scan_issues[k].rule =>
              dedup_key(scan_issues[j]) # dedup_key(scan_issues[k])
    /\ DedupDone =>
          /\ (pc = "raised") = DeclaredOrderScan.raised
          /\ FindingSet(scan_result) = FindingSet(DeclaredOrderScan.unique)
          /\ Len(scan_result) = Len(DeclaredOrderScan.unique)

\* A scan returned whose list is not the list of the declared order: rules
\* were run out of order, findings of different rules lie on the same bounds,
\* and a duplicate was dropped.
C26_Witness ==
    /\ pc = "returned"
    /\ scan_result # DeclaredOrderScan.unique
    /\ Len(scan_result) < Len(scan_issues)
    /\ \E j, k \in DOMAIN scan_result :
          /\ scan_result[j].rule # scan_result[k].rule
          /\ scan_result[j].bounds = scan_result[k].bounds

\* ---- claims about check_focus_order alone
\* C27: the focus-order check emits no finding, whatever the elements and
\* their order in the document.
C27_FocusOrderSilent ==
    check_issues.ran => check_issues.issues = <<>>

\* The check ran on three focusable elements with bounds, the first more than
\* 100 below the second in the document and the third between them.
C27_Witness ==
    /\ check_issues.ran
    /\ Len(checked_elements) = 3
    /\ \A k \in 1..3 : checked_elements[k].focusable /\ HasBounds(checked_elements[k])
    /\ checked_elements[2].bounds[2] < checked_elements[1].bounds[2] - 100
    /\ checked_elements[3].bounds[2] > checked_elements[2].bounds[2]
    /\ checked_elements[3].bounds[2] < checked_elements[1].bounds[2]

\* ---- claims about check_overlapping_elements alone
\* The clickable elements of the checked list, in document order.
Clickables == SelectSeq(checked_elements, LAMBDA e : e.clickable)

\* Clickable elements i and j both have bounds, and their rectangles have a
\* point in common.
Overlapping(i, j) ==
    LET b1 == Clickables[i].bounds
        b2 == Clickables[j].bounds
    IN  /\ b1 # None /\ b2 # None
        /\ Max(b1[1], b2[1]) <= Min(b1[3], b2[3])
        /\ Max(b1[2], b2[2]) <= Min(b1[4], b2[4])

OverlappingPairs ==
    {pair \in (DOMAIN Clickables) \X (DOMAIN Clickables) :
        pair[1] < pair[2] /\ Overlapping(pair[1], pair[2])}

\* The findings of the check after the deduplication pass.
OverlapKept == deduplicate(check_issues.issues)

\* C30: the check gives one finding per overlapping pair (i before j), each
\* of rule overlapping-elements with the bounds of an element that has an
\* overlapping element after it; the deduplication of them returns at most one
\* finding per bounds; an element all of whose overlapping elements come
\* before it and have other bounds has no finding on its bounds.
C30_OverlapReportsFirst ==
    check_issues.ran =>
        /\ Len(check_issues.issues) = Cardinality(OverlappingPairs)
        /\ \A n \in DOMAIN check_issues.issues :
              /\ check_issues.issues[n].rule = "overlapping-elements"
              /\ \E pair \in OverlappingPairs :
                    check_issues.issues[n].bounds = Clickables[pair[1]].bounds
        /\ \A pair \in OverlappingPairs :
              \E n \in DOMAIN check_issues.issues :
                  check_issues.issues[n].bounds = Clickables[pair[1]].bounds
        /\ ~OverlapKept.raised
        /\ \A m, n \in DOMAIN OverlapKept.unique :
              m < n => OverlapKept.unique[m].bounds # OverlapKept.unique[n].bounds
        /\ \A k \in DOMAIN Clickables :
              (/\ \E j \in DOMAIN Clickables : j # k /\ Overlapping(j, k)
               /\ \A j \in DOMAIN Clickables :
                     (j # k /\ Overlapping(j, k)) =>
                         j < k /\ Clickables[j].bounds # Clickables[k].bounds)
              => \A n \in DOMAIN check_issues.issues :
                     check_issues.issues[n].bounds # Clickables[k].bounds

\* Three clickable elements, the first overlapping the two after it, which
\* have other bounds: two findings on the bounds of the first, one kept.
C30_Witness ==
    /\ check_issues.ran
    /\ Len(Clickables) = 3
    /\ Overlapping(1, 2) /\ Overlapping(1, 3) /\ ~Overlapping(2, 3)
    /\ Clickables[2].bounds # Clickables[1].bounds
    /\ Len(check_issues.issues) = 2
    /\ Len(OverlapKept.unique) = 1
    /\ OverlapKept.unique[1].bounds = Clickables[1].bounds

====
